---- MODULE Spec2Model ----
(***************************************************************************)
(* A model of the text-processing core of the legal-document pipeline:     *)
(* the rule cleaner of cleaners/rule_cleaner.py, the LLM cleaner (chunker, *)
(* per-chunk correction, correction validator, calls of the model) of      *)
(* cleaners/llm_cleaner.py, the cleaning phase of cleaners/pipeline.py,    *)
(* the regex article splitter of parsers/rough_splitter.py, the header and *)
(* article extractors, the assembler and the parsing phase of parsers/.    *)
(*                                                                         *)
(* A text is a sequence of lexemes.  A lexeme is a literal piece of the    *)
(* string (a word, a digit, a blank, a newline, a punctuation mark); its   *)
(* width in characters is Len of the literal, and 1 for the lexemes that   *)
(* stand for one character outside ASCII.  The regular expressions of      *)
(* the source are evaluated over lexemes; the vocabularies below are       *)
(* chosen so that no match of a source pattern can begin or end inside a   *)
(* lexeme other than the ones the operators look at.                       *)
(***************************************************************************)
EXTENDS Naturals, Integers, Sequences, FiniteSets, TLC

VARIABLES
    pc,                 \* the step the run is at
    chunk,              \* _correct_chunk: the chunk under correction
    response,           \* _correct_chunk: what _call_ollama returned for it
    validation,         \* the dict returned by _validate_correction
    chunk_result,       \* the LLMChunkResult returned by _correct_chunk
    text,               \* the text given to _process_text / _split_into_chunks
    max_chunk_chars,    \* LLMCleanerConfig.max_chunk_chars
    chunks,             \* the list returned by _split_into_chunks
    idx,                \* _process_text: the loop index i (from 0)
    corrected_chunks,   \* _process_text: the list corrected_chunks
    stats,              \* _process_text: the dict stats
    responses,          \* what _call_ollama returned for each chunk so far
    results,            \* the LLMChunkResult of each chunk so far
    cleaned,            \* the text _process_text returns
    articles,           \* the list returned by rough_split
    header,             \* assemble_articles: the HeaderResult it is given
    raw_extractions,    \* assemble_articles: the per-article extractions
    warnings,           \* the list of warnings the caller passes along
    parsed_articles,    \* the list returned by assemble_articles
    raised,             \* the exception that left the operation, if any
    llm_call,           \* which call of the model is made: its caller
    outcomes,           \* how each attempt of the call ended, in order
    llm_response,       \* what the call returned to its caller
    raw_response,       \* extract: the text the model answered with
    parsed,             \* extract: what _parse_json made of it
    header_path,        \* HeaderExtractor.extract: the return it took
    rule_result,        \* the RuleCleanerResult of RuleCleaner.clean(text)
    second_result,      \* the RuleCleanerResult of cleaning its output again
    skip_llm,           \* CleaningPipeline.skip_llm
    ollama_models,      \* what the ollama service holds of the model
    is_available,       \* LLMCleaner._is_available, the cached answer
    ollama_calls,       \* how many calls of each kind ollama has received
    cleaning_result,    \* the CleaningResult of CleaningPipeline.clean
    args,               \* main: the command line arguments
    input_file,         \* main: the file args.file names, as it is on disk
    extraction_result,  \* main: the ExtractionResult of extract_document
    phases_run,         \* main: the later phases that have run, in order
    output_saved,       \* main: whether an output file has been written
    call_no,            \* the number of the call of the model under way
    attempt,            \* _call_ollama: the loop variable attempt
    result_lists,       \* per call, the list its variable result holds
    error_lists,        \* per call, the list its variable error holds
    workers,            \* the worker threads started so far
    reads,              \* what each attempt's caller read, and from whom
    separation          \* what _separate_languages returned for the text

vars == <<pc, chunk, response, validation, chunk_result, text,
          max_chunk_chars, chunks, idx, corrected_chunks, stats, responses,
          results, cleaned, articles, header, raw_extractions, warnings,
          parsed_articles, raised, llm_call, outcomes, llm_response,
          raw_response, parsed, header_path, rule_result, second_result,
          skip_llm, ollama_models, is_available, ollama_calls,
          cleaning_result, args, input_file, extraction_result, phases_run,
          output_saved, call_no, attempt, result_lists, error_lists, workers,
          reads,
          separation>>

validate_vars == <<chunk, response, validation, chunk_result>>

process_vars == <<idx, corrected_chunks, stats, responses, results, cleaned>>

chunker_vars == <<text, max_chunk_chars, chunks>>

assembler_vars == <<header, raw_extractions, warnings, parsed_articles, raised>>

call_vars == <<llm_call, outcomes, llm_response>>

json_vars == <<raw_response, parsed>>

\* The variables of the parsing phase past the splitter, and of the calls of
\* the model.
parser_vars == <<assembler_vars, call_vars, json_vars, header_path>>

rule_vars == <<rule_result, second_result>>

clean_vars == <<skip_llm, ollama_models, is_available, ollama_calls,
                cleaning_result>>

run_vars == <<args, input_file, extraction_result, phases_run, output_saved>>

thread_vars ==
    <<call_no, attempt, result_lists, error_lists, workers, reads>>

\* Python's None where a text is expected: a value that is no text of the
\* vocabulary.
None == <<"None">>

\* Python's None as a rejection reason.
NoReason == [kind |-> "none"]

-----------------------------------------------------------------------------
(* Bounds of the model.                                                    *)

\* The number of phrases an input text is built from.
MaxParts == 2

\* The number of characters of a text given to the chunker, and the largest
\* budget it is given.
MaxTextLen == 6

MaxBudget == 3

\* The number of paragraphs of a document given to _process_text.
MaxParagraphs == 2

\* The number of segments (marker, header or body lines) of a document given
\* to rough_split.
MaxSegments == 4

-----------------------------------------------------------------------------
(* Text primitives.                                                        *)

\* str.isspace(), and \s of the re module, per lexeme.
IsSpace(l) == l \in {" ", "\n"}

\* \d of the re module, per lexeme.
IsDigit(l) == l \in {"0", "1", "2", "3", "4", "5", "6", "7", "8", "9"}

\* The lexemes of the vocabulary that hold an uppercase letter, with their
\* lowercase forms.
LowerOf ==
    [Article |-> "article", ARTICLE |-> "article", Premier |-> "premier",
     CHAPITRE |-> "chapitre", Chapitre |-> "chapitre",
     SECTION |-> "section", Section |-> "section",
     Here |-> "here", HERE |-> "here", Voici |-> "voici", Okay |-> "okay",
     A |-> "a", Loi |-> "loi"]
        @@ ("Note:" :> "note:") @@ ("NB:" :> "nb:")

\* What re.IGNORECASE compares: the lowercase form of a lexeme.
Lower(l) == IF l \in DOMAIN LowerOf THEN LowerOf[l] ELSE l

\* An Arabic letter (one character), and a non-breaking space U+00A0.
ArabicLetter == "[ar]"

NoBreakSpace == "[nbsp]"

\* len(l) of a lexeme.
CharLen(l) == IF l \in {ArabicLetter, NoBreakSpace} THEN 1 ELSE Len(l)

\* len(s): the number of characters of a text.
RECURSIVE TextLen(_)
TextLen(t) == IF t = <<>> THEN 0 ELSE CharLen(Head(t)) + TextLen(Tail(t))

RECURSIVE LStrip(_)
LStrip(t) == IF t # <<>> /\ IsSpace(Head(t)) THEN LStrip(Tail(t)) ELSE t

RECURSIVE RStrip(_)
RStrip(t) ==
    IF t # <<>> /\ IsSpace(t[Len(t)]) THEN RStrip(SubSeq(t, 1, Len(t) - 1)) ELSE t

\* str.strip()
Strip(t) == RStrip(LStrip(t))

\* The first index >= j of t that holds no whitespace (Len(t) + 1 if none):
\* where \s* stops when it starts at j.
RECURSIVE SkipSpace(_, _)
SkipSpace(t, j) ==
    IF j <= Len(t) /\ IsSpace(t[j]) THEN SkipSpace(t, j + 1) ELSE j

\* The first index >= j of t that holds no digit: where \d* stops.
RECURSIVE SkipDigits(_, _)
SkipDigits(t, j) ==
    IF j <= Len(t) /\ IsDigit(t[j]) THEN SkipDigits(t, j + 1) ELSE j

-----------------------------------------------------------------------------
(* The correction validator: LLMCleaner._validate_correction.              *)

\* "Article" at index i under the given case rule.
IsArticleWord(l, ignorecase) ==
    IF ignorecase THEN Lower(l) = "article" ELSE l = "Article"

\* r"Article\s+\d+" matches at index i of t.
ArticleNumberAt(t, i, ignorecase) ==
    /\ IsArticleWord(t[i], ignorecase)
    /\ i + 1 <= Len(t) /\ IsSpace(t[i + 1])
    /\ LET d == SkipSpace(t, i + 1) IN d <= Len(t) /\ IsDigit(t[d])

\* The group (\d+) of the match of r"Article\s+(\d+)" at index i.
ArticleNumberGroup(t, i) ==
    LET d == SkipSpace(t, i + 1) IN SubSeq(t, d, SkipDigits(t, d) - 1)

\* r"Article\s+premier" matches at index i of t.
ArticlePremierAt(t, i, ignorecase) ==
    /\ IsArticleWord(t[i], ignorecase)
    /\ i + 1 <= Len(t) /\ IsSpace(t[i + 1])
    /\ LET d == SkipSpace(t, i + 1) IN
           /\ d <= Len(t)
           /\ IF ignorecase THEN Lower(t[d]) = "premier" ELSE t[d] = "premier"

\* The list legal_markers, in its order.
legal_markers == <<"Article\\s+\\d+", "Article\\s+premier", "CHAPITRE", "SECTION">>

\* Pattern `pattern` of legal_markers matches at index i of t (re.IGNORECASE).
MarkerAt(pattern, t, i) ==
    CASE pattern = legal_markers[1] -> ArticleNumberAt(t, i, TRUE)
      [] pattern = legal_markers[2] -> ArticlePremierAt(t, i, TRUE)
      [] pattern = legal_markers[3] -> Lower(t[i]) = "chapitre"
      [] pattern = legal_markers[4] -> Lower(t[i]) = "section"

\* len(re.findall(pattern, t, re.IGNORECASE)): no two matches overlap, as a
\* match holds exactly one marker word, its first lexeme.
MarkerCount(pattern, t) ==
    Cardinality({i \in 1..Len(t) : MarkerAt(pattern, t, i)})

\* The groups (\d+) of the matches of r"Article\s+(\d+)" from index i on, in
\* order.
RECURSIVE ArticleNumbersFrom(_, _, _)
ArticleNumbersFrom(t, i, ignorecase) ==
    IF i > Len(t) THEN <<>>
    ELSE IF ArticleNumberAt(t, i, ignorecase)
         THEN <<ArticleNumberGroup(t, i)>>
              \o ArticleNumbersFrom(t, i + 1, ignorecase)
         ELSE ArticleNumbersFrom(t, i + 1, ignorecase)

\* re.findall(r"Article\s+(\d+)", t): no flag is given in this call, so the
\* match is case-sensitive.
ArticleNumbers(t) == ArticleNumbersFrom(t, 1, FALSE)

\* The alternatives of hallucination_patterns, lowercased (re.IGNORECASE);
\* the first and the fourth pattern are anchored with ^.
CommentaryAtStart ==
    {"here", "voici", "the corrected", "le texte corrigé", "i have", "j'ai",
     "okay", "let me", "let's", "i need", "first", "hmm", "wait", "alright",
     "sure"}

CommentaryAnywhere ==
    {"note:", "nb:", "explanation:", "remarque:",
     "i corrected", "i fixed", "i changed", "j'ai corrigé", "j'ai modifié",
     "ocr error", "ocr correction", "the original", "l'original"}

\* HasCommentary with re.IGNORECASE left out of the search.
HasCommentary_CaseSensitive(t) ==
    \/ t # <<>> /\ t[1] \in CommentaryAtStart
    \/ \E i \in 1..Len(t) : t[i] \in CommentaryAnywhere

\* any(re.search(p, t, re.IGNORECASE) for p in hallucination_patterns)
HasCommentary(t) ==
    \/ t # <<>> /\ Lower(t[1]) \in CommentaryAtStart
    \/ \E i \in 1..Len(t) : Lower(t[i]) \in CommentaryAnywhere

\* LengthChangedTooMuch with the threshold taken from the neighbouring field
\* LLMCleanerConfig.max_change_ratio = 0.70.
LengthChangedTooMuch_ChangeRatio(orig_len, corr_len) ==
    LET diff == IF orig_len >= corr_len THEN orig_len - corr_len
                ELSE corr_len - orig_len
        denom == IF orig_len >= 1 THEN orig_len ELSE 1
    IN 10 * diff > 7 * denom

\* LLMCleanerConfig.max_length_change = 0.50, as the fraction 1/2:
\* length_ratio > max_length_change.
LengthChangedTooMuch(orig_len, corr_len) ==
    LET diff == IF orig_len >= corr_len THEN orig_len - corr_len
                ELSE corr_len - orig_len
        denom == IF orig_len >= 1 THEN orig_len ELSE 1
    IN 2 * diff > denom

\* FirstMarkerMismatch with the list legal_markers cut to its two article
\* patterns.
FirstMarkerMismatch_ArticlesOnly(o, c, k) ==
    LET differ == {j \in k..2 : MarkerCount(legal_markers[j], o)
                                    # MarkerCount(legal_markers[j], c)}
    IN IF differ = {} THEN 0 ELSE CHOOSE j \in differ : \A m \in differ : j <= m

\* The first pattern of legal_markers, from index k on, whose counts differ
\* (0 if none): the for loop of check 2.
RECURSIVE FirstMarkerMismatch(_, _, _)
FirstMarkerMismatch(o, c, k) ==
    IF k > Len(legal_markers) THEN 0
    ELSE IF MarkerCount(legal_markers[k], o) # MarkerCount(legal_markers[k], c)
         THEN k
         ELSE FirstMarkerMismatch(o, c, k + 1)

\* No validation was made, no chunk result returned yet.
NotValidated == [accepted |-> FALSE, reason |-> [kind |-> "not_run"]]

NoChunkResult ==
    [original |-> None, corrected |-> None, was_modified |-> FALSE,
     was_rejected |-> FALSE, rejection_reason |-> [kind |-> "not_run"]]

Accepted == [accepted |-> TRUE, reason |-> NoReason]

Rejected(reason) == [accepted |-> FALSE, reason |-> reason]

\* ValidateCorrection with the commentary check made before the marker
\* check.
ValidateCorrection_CommentaryFirst(orig, corr) ==
    LET original_clean == Strip(orig)
        corrected_clean == Strip(corr)
        orig_len == TextLen(original_clean)
        corr_len == TextLen(corrected_clean)
        k == FirstMarkerMismatch(original_clean, corrected_clean, 1)
        orig_numbers == ArticleNumbers(original_clean)
        corr_numbers == ArticleNumbers(corrected_clean)
    IN IF orig_len = 0 THEN Accepted
       ELSE IF LengthChangedTooMuch(orig_len, corr_len)
       THEN Rejected([kind |-> "length", orig_len |-> orig_len,
                      corr_len |-> corr_len])
       ELSE IF HasCommentary(corrected_clean)
       THEN Rejected([kind |-> "commentary"])
       ELSE IF k # 0
       THEN Rejected([kind |-> "marker_count", pattern |-> legal_markers[k],
                      orig_count |-> MarkerCount(legal_markers[k], original_clean),
                      corr_count |-> MarkerCount(legal_markers[k], corrected_clean)])
       ELSE IF orig_numbers # corr_numbers
       THEN Rejected([kind |-> "article_numbers", orig_numbers |-> orig_numbers,
                      corr_numbers |-> corr_numbers])
       ELSE Accepted

ValidateCorrection(orig, corr) ==
    LET original_clean == Strip(orig)
        corrected_clean == Strip(corr)
        orig_len == TextLen(original_clean)
        corr_len == TextLen(corrected_clean)
        k == FirstMarkerMismatch(original_clean, corrected_clean, 1)
        orig_numbers == ArticleNumbers(original_clean)
        corr_numbers == ArticleNumbers(corrected_clean)
    IN IF orig_len = 0 THEN Accepted
       ELSE IF LengthChangedTooMuch(orig_len, corr_len)
       THEN Rejected([kind |-> "length", orig_len |-> orig_len,
                      corr_len |-> corr_len])
       ELSE IF k # 0
       THEN Rejected([kind |-> "marker_count", pattern |-> legal_markers[k],
                      orig_count |-> MarkerCount(legal_markers[k], original_clean),
                      corr_count |-> MarkerCount(legal_markers[k], corrected_clean)])
       ELSE IF orig_numbers # corr_numbers
       THEN Rejected([kind |-> "article_numbers", orig_numbers |-> orig_numbers,
                      corr_numbers |-> corr_numbers])
       ELSE IF HasCommentary(corrected_clean)
       THEN Rejected([kind |-> "commentary"])
       ELSE Accepted

-----------------------------------------------------------------------------
(* LLMCleaner._correct_chunk, given what _call_ollama returned.            *)

\* The reason _correct_chunk gives when _call_ollama returned None.
CallFailed == [kind |-> "call_failed"]

\* CorrectChunk with the two text fields of a rejected result swapped.
CorrectChunk_SwappedOnReject(c, corrected) ==
    IF corrected = None
    THEN [original |-> c, corrected |-> c, was_modified |-> FALSE,
          was_rejected |-> TRUE, rejection_reason |-> CallFailed]
    ELSE LET v == ValidateCorrection(c, corrected) IN
         IF ~v.accepted
         THEN [original |-> corrected, corrected |-> c, was_modified |-> FALSE,
               was_rejected |-> TRUE, rejection_reason |-> v.reason]
         ELSE [original |-> c, corrected |-> Strip(corrected),
               was_modified |-> (Strip(corrected) # Strip(c)),
               was_rejected |-> FALSE, rejection_reason |-> NoReason]

\* What _validate_correction returns to _correct_chunk; it is not called
\* when _call_ollama returned None.
ValidationOf(c, corrected) ==
    IF corrected = None THEN NotValidated ELSE ValidateCorrection(c, corrected)

\* ChunkResultOf with was_modified comparing the stripped response with
\* the chunk as it is.
ChunkResultOf_UnstrippedChunk(c, corrected, v) ==
    IF corrected = None
    THEN [original |-> c, corrected |-> c, was_modified |-> FALSE,
          was_rejected |-> TRUE, rejection_reason |-> CallFailed]
    ELSE IF ~v.accepted
    THEN [original |-> c, corrected |-> c, was_modified |-> FALSE,
          was_rejected |-> TRUE, rejection_reason |-> v.reason]
    ELSE [original |-> c, corrected |-> Strip(corrected),
          was_modified |-> (Strip(corrected) # c),
          was_rejected |-> FALSE, rejection_reason |-> NoReason]

\* The LLMChunkResult of _correct_chunk, v the validation of the response.
ChunkResultOf(c, corrected, v) ==
    IF corrected = None
    THEN [original |-> c, corrected |-> c, was_modified |-> FALSE,
          was_rejected |-> TRUE, rejection_reason |-> CallFailed]
    ELSE IF ~v.accepted
    THEN [original |-> c, corrected |-> c, was_modified |-> FALSE,
          was_rejected |-> TRUE, rejection_reason |-> v.reason]
    ELSE [original |-> c, corrected |-> Strip(corrected),
          was_modified |-> (Strip(corrected) # Strip(c)),
          was_rejected |-> FALSE, rejection_reason |-> NoReason]

CorrectChunk(c, corrected) ==
    ChunkResultOf(c, corrected, ValidationOf(c, corrected))

-----------------------------------------------------------------------------
(* The chunker: LLMCleaner._split_into_chunks and _split_long_paragraph.   *)

\* The paragraph separator "\n\n" the chunker joins with.
ParagraphBreak == <<"\n", "\n">>

\* The last character of the lexeme is a period: (?<=\.)
EndsWithPeriod(l) == l = "."

\* The first character of the lexeme is in [A-ZÀ-Ý]: (?=[A-ZÀ-Ý])
StartsUpper(l) ==
    l \in {"A", "Article", "ARTICLE", "CHAPITRE", "Chapitre", "SECTION",
           "Section", "Here", "HERE", "Voici", "Note:", "NB:", "Okay", "Premier"}

\* The last index >= j of the whitespace run of t that starts at j which
\* holds a newline (0 if the run holds none): where the greedy \s*\n ends.
LastNewlineOfRun(t, j) ==
    LET stop == SkipSpace(t, j)
        newlines == {k \in j..(stop - 1) : t[k] = "\n"}
    IN IF newlines = {} THEN 0
       ELSE CHOOSE k \in newlines : \A m \in newlines : m <= k

\* r"\n\s*\n" matches at index i of t.
ParagraphSeparatorAt(t, i) ==
    t[i] = "\n" /\ LastNewlineOfRun(t, i + 1) # 0

\* re.split(r"\n\s*\n", text)
RECURSIVE SplitParagraphs(_)
SplitParagraphs(t) ==
    LET starts == {i \in 1..Len(t) : ParagraphSeparatorAt(t, i)} IN
    IF starts = {} THEN <<t>>
    ELSE LET i == CHOOSE k \in starts : \A m \in starts : k <= m
             j == LastNewlineOfRun(t, i + 1)
         IN <<SubSeq(t, 1, i - 1)>> \o SplitParagraphs(SubSeq(t, j + 1, Len(t)))

\* r"(?<=\.)\s+(?=[A-ZÀ-Ý])" matches at index i of t: a whitespace run that
\* follows a period and is followed by an uppercase letter.
SentenceBreakAt(t, i) ==
    /\ i > 1 /\ EndsWithPeriod(t[i - 1])
    /\ IsSpace(t[i])
    /\ LET stop == SkipSpace(t, i) IN stop <= Len(t) /\ StartsUpper(t[stop])

\* re.split(r"(?<=\.)\s+(?=[A-ZÀ-Ý])", text)
RECURSIVE SplitSentences(_)
SplitSentences(t) ==
    LET starts == {i \in 1..Len(t) : SentenceBreakAt(t, i)} IN
    IF starts = {} THEN <<t>>
    ELSE LET i == CHOOSE k \in starts : \A m \in starts : k <= m
         IN <<SubSeq(t, 1, i - 1)>>
            \o SplitSentences(SubSeq(t, SkipSpace(t, i), Len(t)))

\* The for loop of _split_long_paragraph over the sentences left, and the
\* final flush of `current`.
RECURSIVE PackSentences(_, _, _, _)
PackSentences(sentences, out, current, max_chars) ==
    IF sentences = <<>>
    THEN IF Strip(current) # <<>> THEN Append(out, Strip(current)) ELSE out
    ELSE LET sentence == Head(sentences) IN
         IF TextLen(current) + TextLen(sentence) > max_chars
         THEN PackSentences(Tail(sentences),
                            IF Strip(current) # <<>>
                            THEN Append(out, Strip(current)) ELSE out,
                            sentence, max_chars)
         ELSE PackSentences(Tail(sentences), out,
                            IF current # <<>> THEN current \o <<" ">> \o sentence
                            ELSE sentence,
                            max_chars)

\* SplitLongParagraph without the flush of `current` after the loop.
SplitLongParagraph_NoFlush(t, max_chars) ==
    LET all == PackSentences(SplitSentences(t), <<>>, <<>>, max_chars)
    IN SubSeq(all, 1, Len(all) - 1)

SplitLongParagraph(t, max_chars) ==
    PackSentences(SplitSentences(t), <<>>, <<>>, max_chars)

\* The for loop of _split_into_chunks over the paragraphs left, and the
\* final flush of current_chunk.
RECURSIVE PackParagraphs(_, _, _, _)
PackParagraphs(paragraphs, out, current_chunk, max_chars) ==
    IF paragraphs = <<>>
    THEN IF Strip(current_chunk) # <<>>
         THEN Append(out, Strip(current_chunk)) ELSE out
    ELSE LET para == Strip(Head(paragraphs))
             rest == Tail(paragraphs)
         IN
         IF para = <<>>
         THEN PackParagraphs(rest, out, current_chunk, max_chars)
         ELSE IF TextLen(current_chunk) + TextLen(para) > max_chars
         THEN LET flushed == IF Strip(current_chunk) # <<>>
                             THEN Append(out, Strip(current_chunk))
                             ELSE out
                  \* current_chunk is reset only when it is flushed
                  kept == IF Strip(current_chunk) # <<>> THEN <<>>
                          ELSE current_chunk
              IN IF TextLen(para) > max_chars
                 THEN PackParagraphs(rest,
                          flushed \o SplitLongParagraph(para, max_chars),
                          kept, max_chars)
                 ELSE PackParagraphs(rest, flushed, para, max_chars)
         ELSE PackParagraphs(rest, out,
                             IF current_chunk # <<>>
                             THEN current_chunk \o ParagraphBreak \o para
                             ELSE para,
                             max_chars)

SplitIntoChunks(t, max_chars) ==
    PackParagraphs(SplitParagraphs(t), <<>>, <<>>, max_chars)

\* "\n\n".join(parts)
RECURSIVE JoinParagraphs(_)
JoinParagraphs(parts) ==
    IF parts = <<>> THEN <<>>
    ELSE IF Len(parts) = 1 THEN parts[1]
    ELSE parts[1] \o ParagraphBreak \o JoinParagraphs(Tail(parts))

-----------------------------------------------------------------------------
(* The structural splitter: parsers/rough_splitter.py.                     *)

\* text[a:b] for lexeme indices: the lexemes a .. b - 1.
Slice(t, a, b) == SubSeq(t, a, b - 1)

\* The character offset at which lexeme i of t starts (len(text) for
\* i = Len(t) + 1).
CharPos(t, i) == TextLen(SubSeq(t, 1, i - 1))

\* The closing class [\.\-–:] of ARTICLE_PATTERN (the en dash is no lexeme of
\* the vocabulary).
IsArticleSeparator(l) == l \in {".", "-", ":"}

\* The ordinal suffixes of ARTICLE_PATTERN (re.IGNORECASE).
IsOrdinalSuffix(l) ==
    Lower(l) \in {"bis", "ter", "quater", "quinquies", "sexies", "septies",
                  "octies", "novies", "decies"}

\* The index after the match of ARTICLE_PATTERN that starts at index i of t,
\* or 0 when the pattern does not match there:
\*   (?:A|a)?rticle\s+(premier|1er|\d+\s*(?:bis|...)?)\s*[\.\-–:]
ArticleMatchEnd(t, i) ==
    IF ~(/\ Lower(t[i]) \in {"article", "rticle"}
         /\ i + 1 <= Len(t) /\ IsSpace(t[i + 1]))
    THEN 0
    ELSE LET d == SkipSpace(t, i + 1)
             \* the index of the separator, given where the number ends
             Closing(e) == LET q == SkipSpace(t, e) IN
                           IF q <= Len(t) /\ IsArticleSeparator(t[q])
                           THEN q + 1 ELSE 0
         IN IF d > Len(t) THEN 0
            ELSE IF Lower(t[d]) \in {"premier", "1er"} THEN Closing(d + 1)
            ELSE IF IsDigit(t[d])
            THEN LET e == SkipSpace(t, SkipDigits(t, d)) IN
                 IF e <= Len(t) /\ IsOrdinalSuffix(t[e]) /\ Closing(e + 1) # 0
                 THEN Closing(e + 1)
                 ELSE Closing(SkipDigits(t, d))
            ELSE 0

\* list(ARTICLE_PATTERN.finditer(text)): the start indices of the matches in
\* order.  A match holds one article word, its first lexeme, so no two
\* matches overlap.
RECURSIVE ArticleMatchesFrom(_, _)
ArticleMatchesFrom(t, i) ==
    IF i > Len(t) THEN <<>>
    ELSE IF ArticleMatchEnd(t, i) # 0
         THEN <<i>> \o ArticleMatchesFrom(t, ArticleMatchEnd(t, i))
         ELSE ArticleMatchesFrom(t, i + 1)

ArticleMatches(t) == ArticleMatchesFrom(t, 1)

\* The index at which the line of index i ends: the first newline at or
\* after i, or Len(t) + 1; where $ holds under re.MULTILINE.
RECURSIVE LineEnd(_, _)
LineEnd(t, i) ==
    IF i > Len(t) \/ t[i] = "\n" THEN i ELSE LineEnd(t, i + 1)

\* [IVXLC]+ : a lexeme of roman digits.
IsRoman(l) == l \in {"I", "II", "III", "IV", "V", "X", "L", "C"}

RECURSIVE SkipRoman(_, _)
SkipRoman(t, j) ==
    IF j <= Len(t) /\ IsRoman(t[j]) THEN SkipRoman(t, j + 1) ELSE j

\* No match of a header pattern.
NoHeader == [found |-> FALSE, number |-> <<>>, title |-> <<>>, stop |-> 0]

\* The least element of a set of indices, 0 for the empty set.
LeastOf(indices) ==
    IF indices = {} THEN 0
    ELSE CHOOSE i \in indices : \A m \in indices : i <= m

\* The index after group 1 of a header pattern, (ORDINALS|[IVXLC]+|\d+),
\* matched at index d; 0 when it does not match.
HeaderNumberEnd(t, d, ordinals) ==
    IF d > Len(t) THEN 0
    ELSE IF t[d] \in ordinals THEN d + 1
    ELSE IF IsRoman(t[d]) THEN SkipRoman(t, d)
    ELSE IF IsDigit(t[d]) THEN SkipDigits(t, d)
    ELSE 0

\* Where group 2, (.+?), starts after a separator at index q: \s* gives back
\* whitespace until a character that is no newline is found, the latest
\* such index in (q + 1) .. `after`; 0 when there is none.
HeaderTitleStart(t, q, after) ==
    LET begins == {k \in (q + 1)..after : k <= Len(t) /\ t[k] # "\n"} IN
    IF begins = {} THEN 0 ELSE CHOOSE k \in begins : \A m \in begins : m <= k

\* The header whose number is the lexemes d .. e - 1, q the index after the
\* \s* that follows the number and k where its title starts (0: no title).
HeaderWithTitle(t, d, e, q, k) ==
    IF q <= Len(t) /\ t[q] \in {"-", ":"} /\ k # 0
    THEN [found |-> TRUE, number |-> Slice(t, d, e),
          title |-> Slice(t, k, LineEnd(t, k)), stop |-> LineEnd(t, k)]
    ELSE IF e > Len(t) \/ t[e] = "\n"
    THEN [found |-> TRUE, number |-> Slice(t, d, e), title |-> <<>>, stop |-> e]
    ELSE NoHeader

HeaderAfterNumber(t, d, e, q) ==
    HeaderWithTitle(t, d, e, q, HeaderTitleStart(t, q, SkipSpace(t, q + 1)))

HeaderFromNumber(t, d, e) ==
    IF e = 0 THEN NoHeader ELSE HeaderAfterNumber(t, d, e, SkipSpace(t, e))

HeaderNumbered(t, d, ordinals) ==
    HeaderFromNumber(t, d, HeaderNumberEnd(t, d, ordinals))

\* The match of a header pattern at index i of t,
\*   (?:WORD|Word)\s+(ORDINALS|[IVXLC]+|\d+)(?:\s*[-–:]\s*(.+?))?$
\* as [found, number, title, stop]: group 1, group 2 (<<>> for None) and the
\* index after the match.  No re.IGNORECASE here.
HeaderMatchAt(t, i, words, ordinals) ==
    IF ~(t[i] \in words /\ i + 1 <= Len(t) /\ IsSpace(t[i + 1])) THEN NoHeader
    ELSE HeaderNumbered(t, SkipSpace(t, i + 1), ordinals)

ChapterAt(t, i) ==
    HeaderMatchAt(t, i, {"CHAPITRE", "Chapitre"}, {"PREMIER", "PREMIÈRE"})

SectionAt(t, i) ==
    HeaderMatchAt(t, i, {"SECTION", "Section"},
                  {"PREMIÈRE", "PREMIERE", "PREMIER"})

\* The match at index i of t of CHAPTER_PATTERN or of SECTION_PATTERN.
HeaderAt(kind, t, i) ==
    IF kind = "chapter" THEN ChapterAt(t, i) ELSE SectionAt(t, i)

\* pattern.search(text): the index of the first match (0 for None).
FirstMatch(kind, t) == LeastOf({i \in 1..Len(t) : HeaderAt(kind, t, i).found})

\* f"{label} {number} - {title}" or f"{label} {number}", the title stripped.
HeaderLabel(label, m) ==
    IF Strip(m.title) # <<>>
    THEN <<label, " ">> \o m.number \o <<" ", "-", " ">> \o Strip(m.title)
    ELSE <<label, " ">> \o m.number

\* LabelOrCurrent with the context dropped when the block holds no header.
LabelOrCurrent_NoCarry(label, kind, t, c, current) ==
    IF c # 0 THEN HeaderLabel(label, HeaderAt(kind, t, c)) ELSE None

\* The label of the match found at index c (0: no match, `current` is kept).
LabelOrCurrent(label, kind, t, c, current) ==
    IF c # 0 THEN HeaderLabel(label, HeaderAt(kind, t, c)) ELSE current

\* _detect_structure(text, current_chapter, current_section)
DetectStructure(t, current_chapter, current_section) ==
    [chapter |-> LabelOrCurrent("CHAPITRE", "chapter", t,
                                FirstMatch("chapter", t), current_chapter),
     section |-> LabelOrCurrent("SECTION", "section", t,
                                FirstMatch("section", t), current_section)]

\* pattern.sub("", text) from index i on: every match, left to right, cut.
RECURSIVE RemoveMatches(_, _, _)
\* m is the match at index i.
RemoveMatchAt(kind, t, i, m) ==
    IF m.found THEN RemoveMatches(kind, t, m.stop)
    ELSE <<t[i]>> \o RemoveMatches(kind, t, i + 1)

RemoveMatches(kind, t, i) ==
    IF i > Len(t) THEN <<>> ELSE RemoveMatchAt(kind, t, i, HeaderAt(kind, t, i))

\* re.sub(r"\n{3,}", "\n\n", text)
RECURSIVE CollapseNewlines(_)
CollapseNewlines(t) ==
    IF Len(t) >= 3 /\ t[1] = "\n" /\ t[2] = "\n" /\ t[3] = "\n"
    THEN CollapseNewlines(Tail(t))
    ELSE IF t = <<>> THEN <<>>
    ELSE <<Head(t)>> \o CollapseNewlines(Tail(t))

\* _strip_structural_headers(text)
StripStructuralHeaders(t) ==
    Strip(CollapseNewlines(
        RemoveMatches("section", RemoveMatches("chapter", t, 1), 1)))

\* ContentEnd one lexeme short of the next match.
ContentEnd_BeforeNext(t, matches, k) ==
    IF k + 1 <= Len(matches) THEN matches[k + 1] - 1 ELSE Len(t) + 1

\* content_end of match number k: the start of the next match, or the end
\* of the text.
ContentEnd(t, matches, k) ==
    IF k + 1 <= Len(matches) THEN matches[k + 1] ELSE Len(t) + 1

\* raw_text of match number k.
RawText(t, matches, k) ==
    Strip(Slice(t, matches[k], ContentEnd(t, matches, k)))

\* between_text of match number k: the text from the end of the previous
\* match (the start of the text for the first) to the start of this one.
BetweenText(t, matches, k) ==
    IF k = 1 THEN Slice(t, 1, matches[k])
    ELSE Slice(t, ArticleMatchEnd(t, matches[k - 1]), matches[k])

\* InsideOverBetween with the header inside used only when the text
\* between the articles gave none.
InsideOverBetween_GapFirst(inside, between) ==
    [chapter |-> IF between.chapter # None THEN between.chapter
                 ELSE inside.chapter,
     section |-> IF between.section # None THEN between.section
                 ELSE inside.section]

\* current_chapter and current_section once a header found inside the
\* article text has replaced what the text between the articles gave.
InsideOverBetween(inside, between) ==
    [chapter |-> IF inside.chapter # None THEN inside.chapter
                 ELSE between.chapter,
     section |-> IF inside.section # None THEN inside.section
                 ELSE between.section]

\* current_chapter and current_section after match number k.
StructureAt(t, matches, k, current_chapter, current_section) ==
    InsideOverBetween(
        DetectStructure(RawText(t, matches, k), None, None),
        DetectStructure(BetweenText(t, matches, k),
                        current_chapter, current_section))

\* The RoughArticle of match number k.
RoughArticle(t, matches, k, structure) ==
    [article_marker |-> Slice(t, matches[k], ArticleMatchEnd(t, matches[k])),
     raw_text |-> StripStructuralHeaders(RawText(t, matches, k)),
     chapter_detected |-> structure.chapter,
     section_detected |-> structure.section,
     start_pos |-> CharPos(t, matches[k]),
     end_pos |-> CharPos(t, ContentEnd(t, matches, k))]

\* The loop of rough_split from match number k on, with the context carried
\* so far.
RECURSIVE SplitFrom(_, _, _, _, _)
\* One iteration: the article is appended and the loop goes on.
AppendArticle(t, matches, k, structure) ==
    <<RoughArticle(t, matches, k, structure)>>
        \o SplitFrom(t, matches, k + 1, structure.chapter, structure.section)

SplitFrom(t, matches, k, current_chapter, current_section) ==
    IF k > Len(matches) THEN <<>>
    ELSE AppendArticle(t, matches, k,
             StructureAt(t, matches, k, current_chapter, current_section))

\* rough_split(text)
RoughSplit(t) == SplitFrom(t, ArticleMatches(t), 1, None, None)

-----------------------------------------------------------------------------
(* The inputs the checks draw from.                                        *)

\* The phrases an input text is built from: the article word in both letter
\* cases, numbers (plain content when no article word precedes them), the
\* other structural markers, commentary and a blank.
Phrases ==
    {<<"Article", " ">>, <<"article", " ">>, <<"3">>, <<"4">>, <<"premier">>,
     <<"CHAPITRE">>, <<"SECTION">>, <<"Here">>, <<" ">>}

\* The texts made of at most n phrases.
RECURSIVE TextsOf(_)
TextsOf(n) ==
    IF n = 0 THEN {<<>>}
    ELSE LET shorter == TextsOf(n - 1) IN
         shorter \cup {t \o p : t \in shorter, p \in Phrases}

InputTexts == TextsOf(MaxParts)

-----------------------------------------------------------------------------
(* SpecValidate: _correct_chunk and _validate_correction applied to every  *)
(* pair of a chunk and a response.                                         *)

\* The variables of a part of the program that a specification leaves aside.
ValidateIdle ==
    /\ chunk = None /\ response = None
    /\ validation = NotValidated /\ chunk_result = NoChunkResult

ChunkerIdle == text = None /\ max_chunk_chars = 0 /\ chunks = <<>>

NoStats ==
    [chunks |-> 0, modified |-> 0, rejected |-> 0, unchanged |-> 0,
     warnings |-> <<>>]

ProcessIdle ==
    /\ idx = 0 /\ corrected_chunks = <<>> /\ stats = NoStats
    /\ responses = <<>> /\ results = <<>> /\ cleaned = None

SplitterIdle == articles = <<>>

\* No exception.
NotRaised == "no exception"

AssemblerIdle ==
    /\ header = None /\ raw_extractions = <<>> /\ warnings = <<>>
    /\ parsed_articles = <<>> /\ raised = NotRaised

CallIdle == llm_call = "none" /\ outcomes = <<>> /\ llm_response = None

JsonIdle == raw_response = None /\ parsed = None

HeaderIdle == header_path = "none"

\* No RuleCleanerResult yet.
NoRuleResult ==
    [cleaned_text |-> None, french_text |-> None, arabic_text |-> None,
     noise_lines_removed |-> 0, noise_chars_removed |-> 0]

RuleIdle == rule_result = NoRuleResult /\ second_result = NoRuleResult

\* No call of ollama yet.
NoCalls == [list |-> 0, test |-> 0, correct |-> 0]

\* No CleaningResult yet.
NoCleaningResult ==
    [french_text |-> None, arabic_text |-> None, cleaned_text |-> None,
     llm_available |-> FALSE, chunks_processed |-> 0,
     chunks_corrected_by_llm |-> 0, warnings |-> <<>>]

RunIdle ==
    /\ args = None /\ input_file = None /\ extraction_result = None
    /\ phases_run = <<>> /\ output_saved = FALSE

ThreadIdle ==
    /\ call_no = 0 /\ attempt = 0 /\ result_lists = <<>> /\ error_lists = <<>>
    /\ workers = <<>> /\ reads = <<>>

SeparateIdle == separation = None

CleanIdle ==
    /\ skip_llm = FALSE /\ ollama_models = "none" /\ is_available = "None"
    /\ ollama_calls = NoCalls /\ cleaning_result = NoCleaningResult
    /\ RunIdle /\ ThreadIdle /\ SeparateIdle

ParserIdle ==
    AssemblerIdle /\ CallIdle /\ JsonIdle /\ HeaderIdle /\ RuleIdle /\ CleanIdle

InitValidate ==
    /\ pc = "correct_chunk"
    /\ chunk \in InputTexts
    /\ response = None
    /\ validation = NotValidated
    /\ chunk_result = NoChunkResult
    /\ ChunkerIdle /\ ProcessIdle /\ SplitterIdle /\ ParserIdle

\* What _call_ollama may return: None after a failed call, else a text.
OllamaResponses == InputTexts \cup {None}

\* _correct_chunk(chunk, language), its call of _call_ollama returning r;
\* `response` keeps r and `validation` what _validate_correction returned.
CorrectChunkStep ==
    /\ pc = "correct_chunk"
    /\ \E r \in OllamaResponses :
           LET v == ValidationOf(chunk, r) IN
           /\ response' = r
           /\ validation' = v
           /\ chunk_result' = ChunkResultOf(chunk, r, v)
    /\ pc' = "chunk_done"
    /\ UNCHANGED <<chunk, text, max_chunk_chars, chunks>>
    /\ UNCHANGED process_vars
    /\ UNCHANGED articles
    /\ UNCHANGED parser_vars
    /\ UNCHANGED rule_vars
    /\ UNCHANGED clean_vars
    /\ UNCHANGED run_vars
    /\ UNCHANGED thread_vars
    /\ UNCHANGED separation

NextValidate == CorrectChunkStep

SpecValidate == InitValidate /\ [][NextValidate]_vars

-----------------------------------------------------------------------------
(* The validator's claims, checked under SpecValidate.                     *)

\* _validate_correction has returned for the pair (chunk, response).
Validated == pc = "chunk_done" /\ response # None

\* The trimmed texts and their lengths, as the claims speak of them.
TrimmedOriginal == Strip(chunk)

TrimmedCorrected == Strip(response)

AbsDiff(a, b) == IF a >= b THEN a - b ELSE b - a

Max(a, b) == IF a >= b THEN a ELSE b

\* |L-C| / max(L,1) > 0.5 for the trimmed lengths L and C.
LengthCheckFails ==
    LET L == TextLen(TrimmedOriginal)
        C == TextLen(TrimmedCorrected)
    IN 2 * AbsDiff(L, C) > Max(L, 1)

\* Some structural-marker pattern occurs a different number of times.
MarkerCountDiffers ==
    LET o == TrimmedOriginal
        c == TrimmedCorrected
    IN \E k \in 1..Len(legal_markers) :
           MarkerCount(legal_markers[k], o) # MarkerCount(legal_markers[k], c)

\* The article numbers referenced, in order, in any letter case of the
\* article word.
ReferencedNumbers(t) == ArticleNumbersFrom(t, 1, TRUE)

\* The corrected text begins with a commentary signature ("Here ...").
BeginsWithCommentary ==
    TrimmedCorrected # <<>> /\ Lower(TrimmedCorrected[1]) = "here"

C3_ArticleNumbersAnyCase ==
    (/\ Validated /\ ~LengthCheckFails
     /\ ReferencedNumbers(TrimmedOriginal) # ReferencedNumbers(TrimmedCorrected))
        => ~validation.accepted

\* C4: a pair that passes the length check and in which some structural
\* marker pattern occurs a different number of times is rejected with a
\* reason that names such a pattern and its two counts.
C4_MarkerCount ==
    (Validated /\ ~LengthCheckFails /\ MarkerCountDiffers)
        => /\ ~validation.accepted
           /\ validation.reason.kind = "marker_count"
           /\ \E k \in 1..Len(legal_markers) :
                  /\ validation.reason.pattern = legal_markers[k]
                  /\ validation.reason.orig_count
                         = MarkerCount(legal_markers[k], TrimmedOriginal)
                  /\ validation.reason.corr_count
                         = MarkerCount(legal_markers[k], TrimmedCorrected)
                  /\ validation.reason.orig_count # validation.reason.corr_count

\* "Article 3" corrected to a text with no article marker: rejected with the
\* count-mismatch reason 1 -> 0 of the first pattern.
C4_Witness ==
    /\ Validated /\ ~LengthCheckFails
    /\ validation.reason.kind = "marker_count"
    /\ validation.reason.pattern = legal_markers[1]
    /\ validation.reason.orig_count = 1 /\ validation.reason.corr_count = 0

FirstFailingCheck ==
    IF LengthCheckFails THEN "length"
    ELSE IF MarkerCountDiffers
              \/ ArticleNumbers(TrimmedOriginal) # ArticleNumbers(TrimmedCorrected)
    THEN "markers"
    ELSE IF HasCommentary(TrimmedCorrected) THEN "commentary"
    ELSE "none"

\* The check a rejection reason belongs to.
CheckOf(reason) ==
    CASE reason.kind = "length" -> "length"
      [] reason.kind \in {"marker_count", "article_numbers"} -> "markers"
      [] reason.kind = "commentary" -> "commentary"
      [] OTHER -> "none"

ReturnedUnchanged == Validated /\ chunk # <<>> /\ response = chunk

\* C28 as stated: a response equal to a non-empty chunk is always accepted,
\* with modified = false, whatever the chunk contains.
C28_UnchangedAlwaysAccepted ==
    ReturnedUnchanged =>
        /\ validation.accepted
        /\ ~chunk_result.was_rejected
        /\ ~chunk_result.was_modified

\* C28 as amended: a response equal to a non-empty chunk is accepted, with
\* modified = false, unless the trimmed chunk itself matches a commentary
\* signature; then it is rejected as commentary and the chunk is kept.
C28_UnchangedAcceptedUnlessCommentary ==
    ReturnedUnchanged =>
        /\ ~chunk_result.was_modified
        /\ IF HasCommentary(TrimmedOriginal)
           THEN /\ validation = Rejected([kind |-> "commentary"])
                /\ chunk_result.was_rejected
                /\ chunk_result.corrected = chunk
           ELSE /\ validation.accepted
                /\ ~chunk_result.was_rejected
                /\ chunk_result.corrected = TrimmedOriginal

\* C28: a chunk with text and a blank at its end came back unchanged and
\* was accepted.
C28_Witness ==
    /\ ReturnedUnchanged
    /\ TrimmedOriginal # chunk
    /\ TrimmedOriginal # <<>>
    /\ validation.accepted
    /\ ~chunk_result.was_modified

-----------------------------------------------------------------------------
(* SpecChunk: _split_into_chunks applied to every text of single           *)
(* characters and every budget.                                            *)

\* The characters of a chunker input: a lowercase letter, an uppercase
\* letter, a period, a blank and a newline.
ChunkAlphabet == {"x", "A", ".", " ", "\n"}

\* The texts over ChunkAlphabet of exactly n characters.
CharTexts(n) == [1..n -> ChunkAlphabet]

InitChunk ==
    /\ pc = "split"
    /\ \E n \in 0..MaxTextLen : text \in CharTexts(n)
    /\ max_chunk_chars \in 1..MaxBudget
    /\ chunks = <<>>
    /\ ValidateIdle /\ ProcessIdle /\ SplitterIdle /\ ParserIdle

\* chunks = self._split_into_chunks(text)
SplitStep ==
    /\ pc = "split"
    /\ chunks' = SplitIntoChunks(text, max_chunk_chars)
    /\ pc' = "split_done"
    /\ UNCHANGED <<text, max_chunk_chars>>
    /\ UNCHANGED validate_vars
    /\ UNCHANGED parser_vars
    /\ UNCHANGED rule_vars
    /\ UNCHANGED clean_vars
    /\ UNCHANGED articles
    /\ UNCHANGED process_vars
    /\ UNCHANGED articles
    /\ UNCHANGED run_vars
    /\ UNCHANGED thread_vars
    /\ UNCHANGED separation

NextChunk == SplitStep

SpecChunk == InitChunk /\ [][NextChunk]_vars

-----------------------------------------------------------------------------
(* The chunker's claims, checked under SpecChunk.                          *)

\* t.split(): the maximal runs of non-whitespace characters of t, in order.
RECURSIVE Words(_)
Words(t) ==
    LET s == LStrip(t) IN
    IF s = <<>> THEN <<>>
    ELSE LET ends == {k \in 1..Len(s) : k = Len(s) \/ IsSpace(s[k + 1])}
             e == CHOOSE k \in ends : \A m \in ends : k <= m
         IN <<SubSeq(s, 1, e)>> \o Words(SubSeq(s, e + 1, Len(s)))

\* C8: the chunks rejoined in order with paragraph separators equal the
\* input after whitespace normalization: the same words in the same order.
C8_RoundTrip ==
    pc = "split_done" => Words(JoinParagraphs(chunks)) = Words(text)

\* A paragraph longer than the budget was split on a sentence boundary,
\* after a paragraph that went into a chunk of its own.
C8_Witness ==
    /\ pc = "split_done"
    /\ Len(chunks) = 3
    /\ Len(SplitParagraphs(text)) = 2
    /\ \E k \in 1..Len(SplitParagraphs(text)) :
           /\ TextLen(Strip(SplitParagraphs(text)[k])) > max_chunk_chars
           /\ Len(SplitSentences(Strip(SplitParagraphs(text)[k]))) = 2

\* C9: when every paragraph of the input is no longer than the budget, every
\* chunk is no longer than the budget.
C9_ChunksWithinBudget ==
    (/\ pc = "split_done"
     /\ \A k \in 1..Len(SplitParagraphs(text)) :
            TextLen(Strip(SplitParagraphs(text)[k])) <= max_chunk_chars)
        => \A j \in 1..Len(chunks) : TextLen(chunks[j]) <= max_chunk_chars

-----------------------------------------------------------------------------
(* Spec: LLMCleaner._process_text on a document, one chunk at a time, for  *)
(* every return value of _call_ollama.                                     *)

\* LLMCleanerConfig.max_chunk_chars, the default.
DefaultMaxChunkChars == 800

\* The paragraphs a document is made of.
DocParagraphs == {<<"Article", " ", "3">>, <<"3">>, <<"Here">>}

\* The sequences of at most n paragraphs.
RECURSIVE ParagraphLists(_)
ParagraphLists(n) ==
    IF n = 0 THEN {<<>>}
    ELSE LET shorter == ParagraphLists(n - 1) IN
         shorter \cup {Append(ps, q) : ps \in shorter, q \in DocParagraphs}

Documents == {JoinParagraphs(ps) : ps \in ParagraphLists(MaxParagraphs)}

\* What _call_ollama may return for a chunk: None after a failed or timed
\* out call, else a non-empty text without surrounding whitespace: the
\* chunk itself, the chunk under a line of commentary, or another text.
OllamaReturns(c) ==
    {None, c, <<"Here", " ">> \o c}
        \cup {Strip(q) : q \in {r \in Phrases : Strip(r) # <<>>}}

Init ==
    /\ pc = "process_text"
    /\ text \in Documents
    /\ max_chunk_chars \in {MaxBudget, DefaultMaxChunkChars}
    /\ chunks = <<>>
    /\ ValidateIdle /\ ProcessIdle /\ SplitterIdle /\ ParserIdle

\* _process_text up to its loop: the text is split and stats is set up.
StartProcessText ==
    /\ pc = "process_text"
    /\ chunks' = SplitIntoChunks(text, max_chunk_chars)
    /\ stats' = [NoStats EXCEPT !.chunks = Len(SplitIntoChunks(text, max_chunk_chars))]
    /\ idx' = 0
    /\ corrected_chunks' = <<>>
    /\ pc' = "loop"
    /\ UNCHANGED <<text, max_chunk_chars, responses, results, cleaned>>
    /\ UNCHANGED validate_vars
    /\ UNCHANGED parser_vars
    /\ UNCHANGED rule_vars
    /\ UNCHANGED clean_vars
    /\ UNCHANGED articles
    /\ UNCHANGED run_vars
    /\ UNCHANGED thread_vars
    /\ UNCHANGED separation

\* What the loop body appends to corrected_chunks for a chunk's result.
ChunkOutput(result) ==
    IF result.was_rejected THEN result.original ELSE result.corrected

\* stats after the loop body has seen `result` for chunk number chunk_num.
StatsAfter(st, result, chunk_num) ==
    IF result.was_rejected
    THEN [st EXCEPT !.rejected = @ + 1,
                    !.warnings = IF result.rejection_reason # NoReason
                                 THEN Append(@, [chunk_num |-> chunk_num,
                                                 reason |-> result.rejection_reason])
                                 ELSE @]
    ELSE IF result.was_modified
    THEN [st EXCEPT !.modified = @ + 1]
    ELSE [st EXCEPT !.unchanged = @ + 1]

\* One iteration of the loop of _process_text, _call_ollama returning r.
ProcessChunk ==
    /\ pc = "loop"
    /\ idx < Len(chunks)
    /\ LET c == chunks[idx + 1] IN
       IF Strip(c) = <<>>
       THEN /\ corrected_chunks' = Append(corrected_chunks, c)
            /\ responses' = Append(responses, None)
            /\ results' = Append(results, NoChunkResult)
            /\ UNCHANGED stats
       ELSE \E r \in OllamaReturns(c) :
                LET result == CorrectChunk(c, r) IN
                /\ corrected_chunks' = Append(corrected_chunks, ChunkOutput(result))
                /\ stats' = StatsAfter(stats, result, idx + 1)
                /\ responses' = Append(responses, r)
                /\ results' = Append(results, result)
    /\ idx' = idx + 1
    /\ UNCHANGED <<pc, text, max_chunk_chars, chunks, cleaned>>
    /\ UNCHANGED validate_vars
    /\ UNCHANGED parser_vars
    /\ UNCHANGED rule_vars
    /\ UNCHANGED clean_vars
    /\ UNCHANGED articles
    /\ UNCHANGED run_vars
    /\ UNCHANGED thread_vars
    /\ UNCHANGED separation

\* return "\n\n".join(corrected_chunks), stats
FinishProcessText ==
    /\ pc = "loop"
    /\ idx = Len(chunks)
    /\ cleaned' = JoinParagraphs(corrected_chunks)
    /\ pc' = "returned"
    /\ UNCHANGED <<text, max_chunk_chars, chunks, idx, corrected_chunks, stats,
                   responses, results>>
    /\ UNCHANGED validate_vars
    /\ UNCHANGED parser_vars
    /\ UNCHANGED rule_vars
    /\ UNCHANGED clean_vars
    /\ UNCHANGED articles
    /\ UNCHANGED run_vars
    /\ UNCHANGED thread_vars
    /\ UNCHANGED separation

Next == StartProcessText \/ ProcessChunk \/ FinishProcessText

Spec == Init /\ [][Next]_vars

-----------------------------------------------------------------------------
(* The claims on _process_text, checked under Spec.                        *)

\* C1: whatever _call_ollama returned for a chunk, a rejected outcome puts
\* exactly the original chunk text at that chunk's position of the output,
\* and every other position holds what its own chunk and response decide:
\* its response's text where that was accepted.
C1_RejectedKeepsOriginal ==
    /\ Len(corrected_chunks) = Len(results)
    /\ \A j \in 1..Len(corrected_chunks) :
           /\ results[j].original = chunks[j]
           /\ results[j].was_rejected => corrected_chunks[j] = chunks[j]
           /\ ~results[j].was_rejected => corrected_chunks[j] = Strip(responses[j])
    /\ pc = "returned" =>
           /\ Len(corrected_chunks) = Len(chunks)
           /\ cleaned = JoinParagraphs(corrected_chunks)

\* A returned document with a chunk rejected by validation next to a chunk
\* whose correction was accepted and changed it.
C1_Witness ==
    /\ pc = "returned"
    /\ \E j, k \in 1..Len(results) :
           /\ results[j].was_rejected
           /\ results[j].rejection_reason.kind \notin {"call_failed", "not_run"}
           /\ responses[j] # chunks[j]
           /\ ~results[k].was_rejected /\ results[k].was_modified

-----------------------------------------------------------------------------
(* SpecSplit: rough_split applied to every document of a few lines.        *)

\* The lines a document is made of: article markers (one lowercase with an
\* ordinal suffix), an article reference that is no marker, a body line,
\* chapter headers and section headers.
Segments ==
    {<<"Article", " ", "1", ".", " ">>,
     <<"article", " ", "2", " ", "bis", "-">>,
     <<"Article", " ", "3", " ">>,
     <<"x", "\n">>,
     <<"CHAPITRE", " ", "I", "\n">>,
     <<"CHAPITRE", " ", "II", " ", "-", " ", "T", "\n">>,
     <<"SECTION", " ", "1", "\n">>,
     <<"SECTION", " ", "2", "\n">>}

\* The texts made of at most n segments.
RECURSIVE DocsOf(_)
DocsOf(n) ==
    IF n = 0 THEN {<<>>}
    ELSE LET shorter == DocsOf(n - 1) IN
         shorter \cup {t \o g : t \in shorter, g \in Segments}

SplitterTexts == DocsOf(MaxSegments)

InitSplit ==
    /\ pc = "rough_split"
    /\ text \in SplitterTexts
    /\ max_chunk_chars = 0
    /\ chunks = <<>>
    /\ articles = <<>>
    /\ ValidateIdle /\ ProcessIdle /\ ParserIdle

\* rough_articles = rough_split(text)
RoughSplitStep ==
    /\ pc = "rough_split"
    /\ articles' = RoughSplit(text)
    /\ pc' = "rough_split_done"
    /\ UNCHANGED chunker_vars
    /\ UNCHANGED validate_vars
    /\ UNCHANGED parser_vars
    /\ UNCHANGED rule_vars
    /\ UNCHANGED clean_vars
    /\ UNCHANGED process_vars
    /\ UNCHANGED run_vars
    /\ UNCHANGED thread_vars
    /\ UNCHANGED separation

NextSplit == RoughSplitStep

SpecSplit == InitSplit /\ [][NextSplit]_vars

-----------------------------------------------------------------------------
(* The splitter's claims, checked under SpecSplit.                         *)

\* One RoughArticle per marker occurrence, in marker order, each starting
\* at its marker, the spans following each other without gap or overlap up
\* to the end of the text.
SpansChainFromFirstMarker ==
    LET matches == ArticleMatches(text) IN
    /\ Len(articles) = Len(matches)
    /\ \A k \in 1..Len(articles) :
           /\ articles[k].start_pos = CharPos(text, matches[k])
           /\ articles[k].article_marker
                  = Slice(text, matches[k], ArticleMatchEnd(text, matches[k]))
           /\ articles[k].start_pos < articles[k].end_pos
           /\ k < Len(articles) => articles[k].end_pos = articles[k + 1].start_pos
           /\ k = Len(articles) => articles[k].end_pos = TextLen(text)

\* C10 as stated: for a text with article markers, one RoughArticle per
\* marker, in order, whose spans cover the input from position 0 to
\* len(text) without gaps and without overlaps.
C10_SpansCoverWholeInput ==
    (pc = "rough_split_done" /\ ArticleMatches(text) # <<>>)
        => /\ SpansChainFromFirstMarker
           /\ articles[1].start_pos = 0

\* C10 as amended: the spans cover the input from the start of the first
\* marker to len(text); the text before the first marker is in no span.
C10_SpansCoverFromFirstMarker ==
    (pc = "rough_split_done" /\ ArticleMatches(text) # <<>>)
        => SpansChainFromFirstMarker

\* Three articles after a line that precedes the first marker.
C10_Witness ==
    /\ pc = "rough_split_done"
    /\ Len(articles) = 3
    /\ articles[1].start_pos > 0
    /\ articles[1].end_pos = articles[2].start_pos
    /\ articles[3].end_pos = TextLen(text)

-----------------------------------------------------------------------------
(* The claims on the chapter and section context of rough_split.           *)

\* pattern.finditer(t) from index i on: the start indices of the matches of
\* the header pattern of the given kind, left to right, none overlapping.
RECURSIVE HeaderStartsFrom(_, _, _)
HeaderStartsFrom(kind, t, i) ==
    IF i > Len(t) THEN <<>>
    ELSE IF HeaderAt(kind, t, i).found
         THEN <<i>> \o HeaderStartsFrom(kind, t, HeaderAt(kind, t, i).stop)
         ELSE HeaderStartsFrom(kind, t, i + 1)

HeaderStarts(kind, t) == HeaderStartsFrom(kind, t, 1)

HeaderKinds == {"chapter", "section"}

LabelWord(kind) == IF kind = "chapter" THEN "CHAPITRE" ELSE "SECTION"

\* The context of the given kind attached to an article.
ContextOf(kind, article) ==
    IF kind = "chapter" THEN article.chapter_detected
    ELSE article.section_detected

\* The label of the header of the given kind that starts at index i of t.
LabelAt(kind, t, i) == HeaderLabel(LabelWord(kind), HeaderAt(kind, t, i))

\* C11: when the gap before an article marker holds several headers of a
\* kind (and the article's own text holds none of that kind), the context
\* attached to the article is the last of them in scan order.
C11_LastHeaderInGap ==
    pc = "rough_split_done" =>
        \A k \in 1..Len(articles) : \A kind \in HeaderKinds :
            LET matches == ArticleMatches(text)
                gap == BetweenText(text, matches, k)
                starts == HeaderStarts(kind, gap)
            IN (/\ Len(starts) >= 2
                /\ HeaderStarts(kind, RawText(text, matches, k)) = <<>>)
                   => ContextOf(kind, articles[k])
                          = LabelAt(kind, gap, starts[Len(starts)])

\* No header of the given kind in the gap before article k nor in its text.
NoHeaderFor(kind, k) ==
    LET matches == ArticleMatches(text) IN
    /\ HeaderStarts(kind, BetweenText(text, matches, k)) = <<>>
    /\ HeaderStarts(kind, RawText(text, matches, k)) = <<>>

\* The labels of the headers of the given kind in the gap before article k
\* and in its text.
LabelsFor(kind, k) ==
    LET matches == ArticleMatches(text)
        gap == BetweenText(text, matches, k)
        raw == RawText(text, matches, k)
    IN {LabelAt(kind, gap, i) : i \in {j \in 1..Len(gap) : HeaderAt(kind, gap, j).found}}
           \cup {LabelAt(kind, raw, i) :
                     i \in {j \in 1..Len(raw) : HeaderAt(kind, raw, j).found}}

\* C12: each context persists from one article to the next until a header
\* of its own kind is detected.  With no header of a kind in its gap or
\* text an article carries the previous article's context of that kind
\* (none for the first article); a context that changes is the label of a
\* header of that kind of the article's gap or text; a context once set is
\* never none again.
C12_ContextPersists ==
    pc = "rough_split_done" =>
        \A k \in 1..Len(articles) : \A kind \in HeaderKinds :
            LET previous == IF k = 1 THEN None
                            ELSE ContextOf(kind, articles[k - 1])
                now == ContextOf(kind, articles[k])
            IN /\ NoHeaderFor(kind, k) => now = previous
               /\ now # previous => now \in LabelsFor(kind, k)
               /\ previous # None => now # None

\* A second article whose gap holds a chapter header and no section header:
\* it keeps the section of the first article.
C12_Witness ==
    /\ pc = "rough_split_done"
    /\ Len(articles) >= 2
    /\ NoHeaderFor("section", 2)
    /\ HeaderStarts("chapter", BetweenText(text, ArticleMatches(text), 2)) # <<>>
    /\ articles[1].section_detected # None
    /\ articles[2].section_detected = articles[1].section_detected
    /\ articles[2].chapter_detected # None

\* The labels of the headers of the given kind in the text of article k.
LabelsInside(kind, k) ==
    LET raw == RawText(text, ArticleMatches(text), k) IN
    {LabelAt(kind, raw, i) : i \in {j \in 1..Len(raw) : HeaderAt(kind, raw, j).found}}

\* No article from number k + 1 to number j holds a header of the kind.
NoHeaderInside(kind, k, j) ==
    \A m \in (k + 1)..j :
        HeaderStarts(kind, RawText(text, ArticleMatches(text), m)) = <<>>

\* C26: a chapter or section header inside an article's own span overrides
\* the context inherited from the gap before it: the article's context of
\* that kind is a header of its span, and every following article carries
\* it until a later span holds a header of the kind.
C26_InsideHeaderOverrides ==
    pc = "rough_split_done" =>
        \A k \in 1..Len(articles) : \A kind \in HeaderKinds :
            LabelsInside(kind, k) # {} =>
                /\ ContextOf(kind, articles[k]) \in LabelsInside(kind, k)
                /\ \A j \in (k + 1)..Len(articles) :
                       NoHeaderInside(kind, k, j)
                           => ContextOf(kind, articles[j])
                                  = ContextOf(kind, articles[k])

\* C26: a first article with a chapter header in the gap before it and
\* another one inside its span, followed by an article without one.
C26_Witness ==
    /\ pc = "rough_split_done"
    /\ Len(articles) >= 2
    /\ HeaderStarts("chapter", BetweenText(text, ArticleMatches(text), 1)) # <<>>
    /\ LabelsInside("chapter", 1) # {}
    /\ LabelsInside("chapter", 2) = {}
    /\ articles[1].chapter_detected \in LabelsInside("chapter", 1)
    /\ articles[1].chapter_detected
           # DetectStructure(BetweenText(text, ArticleMatches(text), 1),
                             None, None).chapter
    /\ articles[2].chapter_detected = articles[1].chapter_detected

-----------------------------------------------------------------------------
(* parsers/assembler.py: assemble_articles, _build_article, _link_articles. *)
(* An article number is a text (a sequence of lexemes: digits, "bis",       *)
(* "premier"); an object is a record of its attributes.                     *)

\* The largest number of extractions given to assemble_articles.
MaxArticles == 3

\* The fields a HeaderResult has (models/parsing.py); a keyword argument of
\* another name is ignored by the constructor, and reading an attribute of
\* another name raises AttributeError.
HeaderResultFields ==
    {"jurisdiction", "institution", "institution_primary",
     "institution_secondary", "institutions", "law_type", "law_number",
     "year", "title_french", "title_arabic", "publication_date",
     "effective_date", "gazette_name", "gazette_number", "gazette_date",
     "gazette_page", "parent_law_id", "preamble_text"}

\* hasattr(obj, name).
HasAttr(obj, name) == name \in DOMAIN obj

\* A HeaderResult built from keyword arguments: the known fields are kept,
\* the others dropped; the fields the assembler does not read are left out.
HeaderResult(kwargs) ==
    [f \in (DOMAIN kwargs) \cap HeaderResultFields |-> kwargs[f]]

\* bool(s) of an optional string.
Truthy(s) == s # None /\ s # <<>>

DigitChars == <<"0", "1", "2", "3", "4", "5", "6", "7", "8", "9">>

\* str(n) of a natural number.
RECURSIVE Str(_)
Str(n) ==
    IF n < 10 THEN <<DigitChars[n + 1]>>
    ELSE Str(n \div 10) \o <<DigitChars[(n % 10) + 1]>>

DigitValue(d) == CHOOSE v \in 0..9 : DigitChars[v + 1] = d

\* int(digits) of a run of digits.
RECURSIVE IntOf(_)
IntOf(digits) ==
    IF digits = <<>> THEN 0
    ELSE 10 * IntOf(SubSeq(digits, 1, Len(digits) - 1))
         + DigitValue(digits[Len(digits)])

\* re.match(r"(\d+)", s): the run of digits s begins with, <<>> for no match.
RECURSIVE LeadingDigits(_)
LeadingDigits(s) ==
    IF s # <<>> /\ IsDigit(Head(s)) THEN <<Head(s)>> \o LeadingDigits(Tail(s))
    ELSE <<>>

\* The article_order _build_article computes (lines 56-63).
ArticleOrder(article_number, order) ==
    IF Truthy(article_number) /\ LeadingDigits(article_number) # <<>>
    THEN IntOf(LeadingDigits(article_number))
    ELSE order

\* _build_article(header, data, order): the ParsedArticle, or the exception
\* raised when the constructor's arguments are evaluated.
BuildArticle(h, data, order) ==
    IF ~HasAttr(h, "effective_date") \/ ~HasAttr(h, "publication_date")
       \/ ~HasAttr(h, "parent_document_id")
    THEN [raised |-> "AttributeError", article |-> None]
    ELSE [raised |-> NotRaised,
          article |->
              [article_number |->
                   IF Truthy(data.article_number) THEN data.article_number
                   ELSE None,
               article_order |-> ArticleOrder(data.article_number, order),
               content_french |-> data.content_french,
               content_arabic |-> data.content_arabic,
               content_combined |-> <<>>,
               content_hash_sha256 |-> <<>>,
               preceding_article_id |-> None,
               following_article_id |-> None]]

\* article.article_number or str(article.article_order)
NumberOrOrder(article) ==
    IF Truthy(article.article_number) THEN article.article_number
    ELSE Str(article.article_order)

\* f"{parent_doc_id}-art-{num}" if parent_doc_id else f"art-{num}"
ArticleId(parent_doc_id, num) ==
    IF Truthy(parent_doc_id) THEN parent_doc_id \o <<"-art-">> \o num
    ELSE <<"art-">> \o num

\* _link_articles(articles, parent_doc_id)
LinkArticles(arts, parent_doc_id) ==
    [k \in 1..Len(arts) |->
        [arts[k] EXCEPT
            !.preceding_article_id =
                IF k > 1
                THEN ArticleId(parent_doc_id, NumberOrOrder(arts[k - 1]))
                ELSE @,
            !.following_article_id =
                IF k < Len(arts)
                THEN ArticleId(parent_doc_id, NumberOrOrder(arts[k + 1]))
                ELSE @]]

\* An extraction that is None: ArticleExtractor.extract gave the article up.
NoExtraction == [present |-> FALSE, article_number |-> None]

\* f"Article {order}: LLM extraction failed, skipped."
SkippedWarning(order) ==
    <<"Article ">> \o Str(order) \o <<": LLM extraction failed, skipped.">>

\* The loop of assemble_articles from position i on (lines 22-30).
RECURSIVE BuildFrom(_, _, _, _, _)
RECURSIVE BuildNext(_, _, _, _, _, _)
BuildFrom(h, raw, i, arts, warns) ==
    IF i > Len(raw)
    THEN [articles |-> arts, warnings |-> warns, raised |-> NotRaised]
    ELSE IF raw[i] = NoExtraction
    THEN BuildFrom(h, raw, i + 1, arts, Append(warns, SkippedWarning(i)))
    ELSE BuildNext(h, raw, i, arts, warns, BuildArticle(h, raw[i], i))

\* The rest of the loop once _build_article has returned or raised.
BuildNext(h, raw, i, arts, warns, built) ==
    IF built.raised # NotRaised
    THEN [articles |-> <<>>, warnings |-> warns, raised |-> built.raised]
    ELSE BuildFrom(h, raw, i + 1, Append(arts, built.article), warns)

\* hashlib.sha256(content.encode("utf-8")).hexdigest(): the digest of a
\* text, a value that tells the text and is no text of the vocabulary.
Sha256(content) == <<"sha256:">> \o content

\* ParsedArticle.compute_hash()
ComputeHash(article) ==
    [article EXCEPT
        !.content_hash_sha256 =
            Sha256(article.content_french \o article.content_arabic)]

\* ParsedArticle.compute_combined(): content_combined (lines 127-132).
ComputeCombined(article) ==
    [article EXCEPT
        !.content_combined =
            IF article.content_french # <<>> /\ article.content_arabic # <<>>
            THEN article.content_french \o <<" ">> \o article.content_arabic
            ELSE article.content_french \o article.content_arabic]

\* The loop of lines 36-38 of assemble_articles.
ComputeDerived(arts) ==
    [k \in 1..Len(arts) |-> ComputeHash(ComputeCombined(arts[k]))]

\* Lines 32-40 of assemble_articles, after the loop.
LinkBuilt(h, built) ==
    IF built.raised # NotRaised THEN built
    ELSE IF ~HasAttr(h, "parent_document_id")
    THEN [built EXCEPT !.articles = <<>>, !.raised = "AttributeError"]
    ELSE [built EXCEPT
              !.articles =
                  ComputeDerived(LinkArticles(@, h.parent_document_id))]

\* assemble_articles(header, raw_extractions, warnings): the list returned,
\* the caller's list of warnings afterwards, and the exception raised.
AssembleArticles(h, raw, warns) ==
    LinkBuilt(h, BuildFrom(h, raw, 1, <<>>, warns))

-----------------------------------------------------------------------------
(* SpecAssemble: assemble_articles applied to the header the header         *)
(* extractor builds and to every list of at most MaxArticles extractions.   *)

\* law_type.lower().replace(" ", "-") of _build_parent_id; the vocabulary
\* has no accented letter for the other replacements to act on.
TypeNormalized(law_type) ==
    [k \in 1..Len(law_type) |->
        IF law_type[k] = " " THEN "-" ELSE Lower(law_type[k])]

\* _build_parent_id(law_type, law_number)
BuildParentId(law_type, law_number) ==
    IF ~Truthy(law_type) \/ ~Truthy(law_number) THEN None
    ELSE <<"tn-">> \o TypeNormalized(law_type) \o <<"-">> \o law_number

\* The HeaderResult the header extractor returns for a law type and a law
\* number (the constructor calls of _build_result and _regex_fallback).
ExtractedHeader(law_type, law_number) ==
    HeaderResult(
        [law_type |-> law_type, law_number |-> law_number,
         publication_date |-> None, effective_date |-> None,
         source_name |-> None, source_number |-> None, source_date |-> None,
         parent_document_id |-> BuildParentId(law_type, law_number)])

LawTypes == {None, <<"Loi">>, <<"Loi", " ", "organique">>}

LawNumbers == {None, <<"66-27">>}

\* The article numbers an extraction may declare: none, empty, numeric,
\* numeric with a suffix, a word.
DeclaredNumbers ==
    {None, <<>>, <<"1">>, <<"2">>, <<"3">>, <<"3", "bis">>, <<"premier">>}

\* The French and the Arabic content an extraction may carry: none, French
\* only, both, and French that reads as the two of the pair before.
DeclaredContents ==
    {<< <<>>, <<>> >>, << <<"a">>, <<>> >>, << <<"a">>, <<"b">> >>,
     << <<"a", "b">>, <<>> >>}

\* What ArticleExtractor.extract returns: None, or the dict of the article.
Extractions ==
    {NoExtraction}
        \cup {[present |-> TRUE, article_number |-> n,
               content_french |-> c[1], content_arabic |-> c[2]] :
                  n \in DeclaredNumbers, c \in DeclaredContents}

InitAssemble ==
    /\ pc = "assemble"
    /\ \E lt \in LawTypes, ln \in LawNumbers : header = ExtractedHeader(lt, ln)
    /\ \E n \in 1..MaxArticles : raw_extractions \in [1..n -> Extractions]
    /\ warnings = <<>>
    /\ parsed_articles = <<>>
    /\ raised = NotRaised
    /\ ValidateIdle /\ ChunkerIdle /\ ProcessIdle /\ SplitterIdle
    /\ CallIdle /\ JsonIdle /\ HeaderIdle /\ RuleIdle /\ CleanIdle

\* assemble_articles(header, raw_extractions, warnings), step 4 of
\* ParsingPipeline.parse.
AssembleStep ==
    /\ pc = "assemble"
    /\ LET r == AssembleArticles(header, raw_extractions, warnings) IN
           /\ parsed_articles' = r.articles
           /\ warnings' = r.warnings
           /\ raised' = r.raised
    /\ pc' = "assemble_done"
    /\ UNCHANGED <<header, raw_extractions>>
    /\ UNCHANGED validate_vars
    /\ UNCHANGED chunker_vars
    /\ UNCHANGED process_vars
    /\ UNCHANGED rule_vars
    /\ UNCHANGED clean_vars
    /\ UNCHANGED articles
    /\ UNCHANGED call_vars
    /\ UNCHANGED json_vars
    /\ UNCHANGED header_path
    /\ UNCHANGED run_vars
    /\ UNCHANGED thread_vars
    /\ UNCHANGED separation

NextAssemble == AssembleStep

SpecAssemble == InitAssemble /\ [][NextAssemble]_vars

-----------------------------------------------------------------------------
(* The claims on assemble_articles.                                         *)

\* The extractions that are present, in the order given.
PresentExtractions == SelectSeq(raw_extractions, LAMBDA e : e.present)

\* The number an extraction declares, None when it declares none.
DeclaredNumber(e) ==
    IF Truthy(e.article_number) THEN e.article_number ELSE None

\* The parent document id of the document the header belongs to.
ParentDocumentId(h) == BuildParentId(h.law_type, h.law_number)

\* "P-art-<number>", "art-<number>" when there is no parent id.
ExpectedLink(parent, number) ==
    IF parent = None THEN <<"art-">> \o number
    ELSE parent \o <<"-art-">> \o number

\* The text of a whole number.
IsNumeric(s) == s # None /\ s # <<>> /\ LeadingDigits(s) = s

\* The number of present extractions among the first i.
PresentUpTo(i) == Len(SelectSeq(SubSeq(raw_extractions, 1, i),
                                LAMBDA e : e.present))

\* C13: once assemble_articles has run, every article's predecessor link is
\* "P-art-<number of the previous article>" and its successor link
\* "P-art-<number of the next article>" for the parent id P of the header
\* ("art-<number>" without a parent id, the order standing in for a number
\* that is not declared); the first article has no predecessor and the last
\* no successor.
C13_LinksToAdjacentArticles ==
    pc = "assemble_done" =>
        /\ raised = NotRaised
        /\ Len(parsed_articles) = Len(PresentExtractions)
        /\ \A k \in 1..Len(parsed_articles) :
               /\ parsed_articles[k].preceding_article_id =
                      IF k = 1 THEN None
                      ELSE ExpectedLink(ParentDocumentId(header),
                                        NumberOrOrder(parsed_articles[k - 1]))
               /\ parsed_articles[k].following_article_id =
                      IF k = Len(parsed_articles) THEN None
                      ELSE ExpectedLink(ParentDocumentId(header),
                                        NumberOrOrder(parsed_articles[k + 1]))

\* C14: assemble_articles drops every absent extraction without raising:
\* it returns as many articles as there are present extractions, in the
\* order given, and appends one warning for each absent extraction.
C14_AbsentExtractionsDropped ==
    pc = "assemble_done" =>
        /\ raised = NotRaised
        /\ Len(parsed_articles) = Len(PresentExtractions)
        /\ \A k \in 1..Len(parsed_articles) :
               parsed_articles[k].article_number
                   = DeclaredNumber(PresentExtractions[k])
        /\ Len(warnings)
               = Len(raw_extractions) - Len(PresentExtractions)

\* C15: the order of an assembled article is the value of its declared
\* number when that number is numeric, and the position of its extraction
\* when the declared number is not numeric ("premier", "3bis").
C15_OrderFromNumberOrPosition ==
    pc = "assemble_done" =>
        /\ raised = NotRaised
        /\ \A i \in 1..Len(raw_extractions) :
               raw_extractions[i].present =>
                   /\ PresentUpTo(i) <= Len(parsed_articles)
                   /\ parsed_articles[PresentUpTo(i)].article_order =
                          IF IsNumeric(raw_extractions[i].article_number)
                          THEN IntOf(raw_extractions[i].article_number)
                          ELSE i

\* C21: assemble_articles returns its articles, and the content hash of
\* every article it returns is the SHA-256 digest of its content_french
\* followed by its content_arabic as they are at the return, so that two
\* articles with the same pair of contents have the same hash.
C21_HashOfFinalContent ==
    pc = "assemble_done" =>
        /\ raised = NotRaised
        /\ Len(parsed_articles) = Len(PresentExtractions)
        /\ \A k \in 1..Len(parsed_articles) :
               /\ parsed_articles[k].content_french
                      = PresentExtractions[k].content_french
               /\ parsed_articles[k].content_arabic
                      = PresentExtractions[k].content_arabic
               /\ parsed_articles[k].content_hash_sha256 =
                      Sha256(parsed_articles[k].content_french
                                 \o parsed_articles[k].content_arabic)

-----------------------------------------------------------------------------
(* The calls of the language model: LLMCleaner._call_ollama,                *)
(* HeaderExtractor._call_llm and ArticleExtractor._call_llm.  Each attempt  *)
(* runs ollama.chat in a thread the caller joins for at most the timeout.   *)

\* LLMCleanerConfig.max_retries
max_retries == 2

\* How an attempt ends: the thread is still alive at the timeout, ollama.chat
\* raised, or it returned a message with the given content.
TimedOut == [kind |-> "timeout", content |-> None]

Failed == [kind |-> "error", content |-> None]

Responded(content) == [kind |-> "response", content |-> content]

\* The lexeme of a markdown code fence, three backquotes.
Fence == "[fence]"

\* The contents of a message: empty, blank, plain, in a code fence, an empty
\* code fence.
Contents ==
    {<<>>, <<" ">>, <<"x">>, <<Fence, "json", "\n", "x", "\n", Fence>>,
     <<Fence, "\n", Fence>>}

AttemptOutcomes == {TimedOut, Failed} \cup {Responded(c) : c \in Contents}

\* \w of the re module, per lexeme.
IsWord(l) == l \in {"x", "json"}

\* re.sub of an opening fence, an optional word and an optional newline at
\* the start of t (line 518).
RemoveOpeningFence(t) ==
    IF t = <<>> \/ Head(t) # Fence THEN t
    ELSE LET afterWord == IF Len(t) >= 2 /\ IsWord(t[2]) THEN 3 ELSE 2
             afterLine == IF afterWord <= Len(t) /\ t[afterWord] = "\n"
                          THEN afterWord + 1 ELSE afterWord
         IN  SubSeq(t, afterLine, Len(t))

\* re.sub of an optional newline and a closing fence at the end of t (line
\* 519).
RemoveClosingFence(t) ==
    IF t = <<>> \/ t[Len(t)] # Fence THEN t
    ELSE IF Len(t) >= 2 /\ t[Len(t) - 1] = "\n"
    THEN SubSeq(t, 1, Len(t) - 2)
    ELSE SubSeq(t, 1, Len(t) - 1)

\* The response_text of _call_ollama (lines 511-520).
ResponseText(content) ==
    Strip(RemoveClosingFence(RemoveOpeningFence(Strip(content))))

\* Whether the attempt of _call_ollama that ended with o yields no text.
AttemptFailed(o) ==
    o.kind \in {"timeout", "error"} \/ ResponseText(o.content) = <<>>

\* What _call_llm of an extractor returns after its one attempt.
CallLLM(o) == IF o.kind = "response" THEN Strip(o.content) ELSE None

-----------------------------------------------------------------------------
(* SpecCall: one call of the model by each of its three callers, every     *)
(* attempt ending in one of AttemptOutcomes.                               *)

LLMCalls == {"header", "chunk", "article"}

InitCall ==
    /\ pc = "call"
    /\ llm_call \in LLMCalls
    /\ outcomes = <<>>
    /\ llm_response = None
    /\ ValidateIdle /\ ChunkerIdle /\ ProcessIdle /\ SplitterIdle
    /\ AssemblerIdle /\ JsonIdle /\ HeaderIdle /\ RuleIdle /\ CleanIdle

\* One pass of the loop of _call_ollama (lines 460-529): attempt number
\* Len(outcomes), from 0, ends with o; the call returns the text, goes round
\* again, or returns None once attempt = max_retries.
CallOllamaAttempt ==
    /\ pc = "call"
    /\ llm_call = "chunk"
    /\ Len(outcomes) <= max_retries
    /\ \E o \in AttemptOutcomes :
           /\ outcomes' = Append(outcomes, o)
           /\ IF ~AttemptFailed(o)
              THEN llm_response' = ResponseText(o.content) /\ pc' = "call_done"
              ELSE IF Len(outcomes) < max_retries
              THEN llm_response' = llm_response /\ pc' = "call"
              ELSE llm_response' = None /\ pc' = "call_done"
    /\ UNCHANGED llm_call
    /\ UNCHANGED validate_vars
    /\ UNCHANGED chunker_vars
    /\ UNCHANGED process_vars
    /\ UNCHANGED rule_vars
    /\ UNCHANGED clean_vars
    /\ UNCHANGED articles
    /\ UNCHANGED assembler_vars
    /\ UNCHANGED json_vars
    /\ UNCHANGED header_path
    /\ UNCHANGED run_vars
    /\ UNCHANGED thread_vars
    /\ UNCHANGED separation

\* HeaderExtractor._call_llm(prompt): one attempt.
HeaderCallLLM ==
    /\ pc = "call"
    /\ llm_call = "header"
    /\ \E o \in AttemptOutcomes :
           /\ outcomes' = Append(outcomes, o)
           /\ llm_response' = CallLLM(o)
    /\ pc' = "call_done"
    /\ UNCHANGED llm_call
    /\ UNCHANGED validate_vars
    /\ UNCHANGED chunker_vars
    /\ UNCHANGED process_vars
    /\ UNCHANGED rule_vars
    /\ UNCHANGED clean_vars
    /\ UNCHANGED articles
    /\ UNCHANGED assembler_vars
    /\ UNCHANGED json_vars
    /\ UNCHANGED header_path
    /\ UNCHANGED run_vars
    /\ UNCHANGED thread_vars
    /\ UNCHANGED separation

\* ArticleExtractor._call_llm(prompt): one attempt.
ArticleCallLLM ==
    /\ pc = "call"
    /\ llm_call = "article"
    /\ \E o \in AttemptOutcomes :
           /\ outcomes' = Append(outcomes, o)
           /\ llm_response' = CallLLM(o)
    /\ pc' = "call_done"
    /\ UNCHANGED llm_call
    /\ UNCHANGED validate_vars
    /\ UNCHANGED chunker_vars
    /\ UNCHANGED process_vars
    /\ UNCHANGED rule_vars
    /\ UNCHANGED clean_vars
    /\ UNCHANGED articles
    /\ UNCHANGED assembler_vars
    /\ UNCHANGED json_vars
    /\ UNCHANGED header_path
    /\ UNCHANGED run_vars
    /\ UNCHANGED thread_vars
    /\ UNCHANGED separation

NextCall == CallOllamaAttempt \/ HeaderCallLLM \/ ArticleCallLLM

SpecCall == InitCall /\ [][NextCall]_vars

\* C16: a call of the model of any kind (header extraction, chunk
\* correction, article extraction) that is given up has been attempted again
\* after each failure until the retry budget was spent: max_retries + 1
\* attempts have been made, each timed out or failed.
C16_FailedCallsRetried ==
    (pc = "call_done" /\ llm_response = None) =>
        Len(outcomes) = max_retries + 1

-----------------------------------------------------------------------------
(* SpecThreads: the worker threads of the calls.  _call_ollama and _call_llm *)
(* start a daemon thread per attempt whose target() appends to the lists     *)
(* named result and error of the enclosing call; the caller waits with       *)
(* join(timeout) and abandons a thread that is still alive.  target() looks  *)
(* the two names up when it appends, in the frame of the call that made it:  *)
(* it appends to the lists the names are bound to at that moment.            *)

\* The number of successive calls (chunks, or articles).
MaxCalls == 2

\* The callers with worker threads that are modelled here.
ThreadedCalls == {"chunk", "article"}

\* The retries of a call: range(self.config.max_retries + 1) in
\* _call_ollama, a single attempt in _call_llm.
RetriesOf(kind) == IF kind = "chunk" THEN max_retries ELSE 0

\* The worker started by attempt a of call c.
WorkerOf(c, a) == [call |-> c, attempt |-> a]

NoWorker == [call |-> 0, attempt |-> 0]

\* The index in workers of the worker of the attempt under way.
OwnWorker ==
    CHOOSE w \in 1..Len(workers) : workers[w].id = WorkerOf(call_no, attempt)

\* What the caller does after an attempt without a text.
RetryOrGiveUp == IF attempt < RetriesOf(llm_call) THEN "retry" ELSE "None"

InitThreads ==
    /\ pc = "call_start"
    /\ llm_call \in ThreadedCalls
    /\ outcomes = <<>> /\ llm_response = None
    /\ ThreadIdle
    /\ RunIdle /\ SeparateIdle
    /\ skip_llm = FALSE /\ ollama_models = "none" /\ is_available = "None"
    /\ ollama_calls = NoCalls /\ cleaning_result = NoCleaningResult
    /\ ValidateIdle /\ ChunkerIdle /\ ProcessIdle /\ SplitterIdle
    /\ AssemblerIdle /\ JsonIdle /\ HeaderIdle /\ RuleIdle

\* A call of _call_ollama or _call_llm begins: a new frame with its own
\* names result and error.
StartCallStep ==
    /\ pc \in {"call_start", "call_returned"}
    /\ call_no < MaxCalls
    /\ call_no' = call_no + 1
    /\ attempt' = 0
    /\ result_lists' = Append(result_lists, <<>>)
    /\ error_lists' = Append(error_lists, <<>>)
    /\ pc' = "attempt_start"
    /\ UNCHANGED <<workers, reads>>
    /\ UNCHANGED validate_vars
    /\ UNCHANGED chunker_vars
    /\ UNCHANGED process_vars
    /\ UNCHANGED articles
    /\ UNCHANGED parser_vars
    /\ UNCHANGED rule_vars
    /\ UNCHANGED clean_vars
    /\ UNCHANGED run_vars
    /\ UNCHANGED separation

\* The top of an attempt (llm_cleaner.py:461-485, article_extractor.py:
\* 126-152): result = [], error = [] rebinds the two names of the frame,
\* then the thread is started.
StartAttemptStep ==
    /\ pc = "attempt_start"
    /\ result_lists' = [result_lists EXCEPT ![call_no] = <<>>]
    /\ error_lists' = [error_lists EXCEPT ![call_no] = <<>>]
    /\ workers' = Append(workers, [id |-> WorkerOf(call_no, attempt),
                                   state |-> "running"])
    /\ pc' = "attempt_wait"
    /\ UNCHANGED <<call_no, attempt, reads>>
    /\ UNCHANGED validate_vars
    /\ UNCHANGED chunker_vars
    /\ UNCHANGED process_vars
    /\ UNCHANGED articles
    /\ UNCHANGED parser_vars
    /\ UNCHANGED rule_vars
    /\ UNCHANGED clean_vars
    /\ UNCHANGED run_vars
    /\ UNCHANGED separation

\* target() of a running worker ends: ollama.chat returned and
\* result.append runs, or it raised and error.append runs, on the list the
\* name is bound to in the frame of the worker's call.
WorkerFinishStep ==
    /\ pc \in {"attempt_start", "attempt_wait", "call_returned"}
    /\ \E w \in 1..Len(workers) :
           /\ workers[w].state = "running"
           /\ \E o \in {"response", "error"} :
                  /\ workers' = [workers EXCEPT ![w].state = o]
                  /\ IF o = "response"
                     THEN /\ result_lists' =
                                 [result_lists EXCEPT ![workers[w].id.call] =
                                      Append(@, workers[w].id)]
                          /\ UNCHANGED error_lists
                     ELSE /\ error_lists' =
                                 [error_lists EXCEPT ![workers[w].id.call] =
                                      Append(@, workers[w].id)]
                          /\ UNCHANGED result_lists
    /\ UNCHANGED <<pc, call_no, attempt, reads>>
    /\ UNCHANGED validate_vars
    /\ UNCHANGED chunker_vars
    /\ UNCHANGED process_vars
    /\ UNCHANGED articles
    /\ UNCHANGED parser_vars
    /\ UNCHANGED rule_vars
    /\ UNCHANGED clean_vars
    /\ UNCHANGED run_vars
    /\ UNCHANGED separation

\* What the caller reads once the wait is over (llm_cleaner.py:494-529,
\* article_extractor.py:161-170): the thread still alive is a timeout; else
\* error[0] if error holds anything, else result[0].
AttemptRead ==
    IF workers[OwnWorker].state = "running"
    THEN [seen |-> "timeout", from |-> NoWorker, returns |-> RetryOrGiveUp]
    ELSE IF error_lists[call_no] # <<>>
    THEN [seen |-> "error", from |-> error_lists[call_no][1],
          returns |-> RetryOrGiveUp]
    ELSE IF result_lists[call_no] # <<>>
    THEN [seen |-> "response", from |-> result_lists[call_no][1],
          returns |-> "response"]
    ELSE [seen |-> "nothing", from |-> NoWorker, returns |-> RetryOrGiveUp]

\* The wait of the caller ends, by the end of the thread or by the timeout,
\* and the caller returns or goes round the loop again.
EndAttemptStep ==
    /\ pc = "attempt_wait"
    /\ reads' = Append(reads, [call |-> call_no, attempt |-> attempt,
                               own |-> workers[OwnWorker].state,
                               seen |-> AttemptRead.seen,
                               from |-> AttemptRead.from,
                               returns |-> AttemptRead.returns])
    /\ IF AttemptRead.returns = "retry"
       THEN attempt' = attempt + 1 /\ pc' = "attempt_start"
       ELSE attempt' = attempt /\ pc' = "call_returned"
    /\ UNCHANGED <<call_no, result_lists, error_lists, workers>>
    /\ UNCHANGED validate_vars
    /\ UNCHANGED chunker_vars
    /\ UNCHANGED process_vars
    /\ UNCHANGED articles
    /\ UNCHANGED parser_vars
    /\ UNCHANGED rule_vars
    /\ UNCHANGED clean_vars
    /\ UNCHANGED run_vars
    /\ UNCHANGED separation

NextThreads ==
    StartCallStep \/ StartAttemptStep \/ WorkerFinishStep \/ EndAttemptStep

SpecThreads == InitThreads /\ [][NextThreads]_vars

\* C27: what an attempt reads, a response or an error, was delivered by the
\* worker of that attempt: never by a worker abandoned in an earlier attempt
\* of the same call, nor by a worker of an earlier call.
C27_AttemptReadsOwnWorker ==
    \A k \in 1..Len(reads) :
        reads[k].seen \in {"response", "error"}
            => reads[k].from = WorkerOf(reads[k].call, reads[k].attempt)

\* The attempt of reads[k] failed: its thread was still alive at the
\* timeout, or its ollama.chat raised.
OwnAttemptFailed(k) == reads[k].own \in {"running", "error"}

\* C25: a call of _call_ollama makes at most max_retries + 1 attempts; it
\* starts a new attempt only after the previous one failed, returns the
\* response of the first attempt that obtained one, and reports failure
\* only after max_retries + 1 attempts that all failed.
C25_BoundedRetries ==
    llm_call = "chunk" =>
        \A k \in 1..Len(reads) :
            /\ reads[k].attempt <= max_retries
            /\ reads[k].attempt > 0 =>
                   /\ reads[k - 1].call = reads[k].call
                   /\ reads[k - 1].attempt = reads[k].attempt - 1
                   /\ OwnAttemptFailed(k - 1)
            /\ reads[k].returns = "response" <=> reads[k].own = "response"
            /\ reads[k].returns = "None" <=>
                   (reads[k].attempt = max_retries /\ OwnAttemptFailed(k))

-----------------------------------------------------------------------------
(* _parse_json of the two extractors.  A response is a sequence of lexemes: *)
(* braces, brackets, commas, colons, quoted strings, digits, blanks and     *)
(* words of commentary.  json.loads is a recogniser of the JSON grammar     *)
(* over the lexemes; the value it returns is written as the lexemes of the  *)
(* value without the blanks between them.                                   *)

\* The largest number of lexemes before and after the object of a response.
MaxStray == 2

\* A double-quoted string, and one that holds a closing brace.
QuotedString == "\"a\""

BraceString == "\"}\""

\* BraceString cut after its brace: what a slice ending at that brace ends
\* with.
CutBraceString == "\"}"

\* A single-quoted string, which JSON does not have.
SingleQuoted == "'a'"

IsJsonString(l) == l \in {QuotedString, BraceString}

\* The lexemes without the whitespace between them.
NoSpace(t) == SelectSeq(t, LAMBDA l : ~IsSpace(l))

\* The JSON grammar: the index after the value that starts at toks[i], 0 if
\* none starts there.
RECURSIVE ValueEnd(_, _)
RECURSIVE MembersEnd(_, _)
RECURSIVE ElementsEnd(_, _)
RECURSIVE MemberRest(_, _)
RECURSIVE ElementRest(_, _)
ValueEnd(toks, i) ==
    IF i > Len(toks) THEN 0
    ELSE IF IsJsonString(toks[i]) \/ IsDigit(toks[i]) THEN i + 1
    ELSE IF toks[i] = "{"
    THEN IF i + 1 <= Len(toks) /\ toks[i + 1] = "}" THEN i + 2
         ELSE MembersEnd(toks, i + 1)
    ELSE IF toks[i] = "["
    THEN IF i + 1 <= Len(toks) /\ toks[i + 1] = "]" THEN i + 2
         ELSE ElementsEnd(toks, i + 1)
    ELSE 0

\* "key": value, then a comma and more members or the closing brace.
MembersEnd(toks, i) ==
    IF i + 1 > Len(toks) \/ ~IsJsonString(toks[i]) \/ toks[i + 1] # ":" THEN 0
    ELSE MemberRest(toks, ValueEnd(toks, i + 2))

MemberRest(toks, j) ==
    IF j = 0 \/ j > Len(toks) THEN 0
    ELSE IF toks[j] = "}" THEN j + 1
    ELSE IF toks[j] = "," THEN MembersEnd(toks, j + 1)
    ELSE 0

\* value, then a comma and more elements or the closing bracket.
ElementsEnd(toks, i) == ElementRest(toks, ValueEnd(toks, i))

ElementRest(toks, j) ==
    IF j = 0 \/ j > Len(toks) THEN 0
    ELSE IF toks[j] = "]" THEN j + 1
    ELSE IF toks[j] = "," THEN ElementsEnd(toks, j + 1)
    ELSE 0

\* Whether the lexemes are one JSON value.
IsJsonValue(toks) == toks # <<>> /\ ValueEnd(toks, 1) = Len(toks) + 1

\* json.loads(t): the value, None for JSONDecodeError.
JsonLoads(t) == IF IsJsonValue(NoSpace(t)) THEN NoSpace(t) ELSE None

\* re.sub(r",\s*}", "}", t) for close = "}", re.sub(r",\s*]", "]", t) for
\* close = "]".
RECURSIVE RemoveCommaBefore(_, _)
RemoveCommaBefore(close, t) ==
    IF t = <<>> THEN <<>>
    ELSE IF Head(t) = "," /\ SkipSpace(t, 2) <= Len(t)
            /\ t[SkipSpace(t, 2)] = close
    THEN RemoveCommaBefore(close, SubSeq(t, SkipSpace(t, 2), Len(t)))
    ELSE <<Head(t)>> \o RemoveCommaBefore(close, Tail(t))

RemoveTrailingCommas(t) == RemoveCommaBefore("]", RemoveCommaBefore("}", t))

\* text.replace("'", '"') when the text has no double quote and has a single
\* one (article_extractor.py:120-121).
SingleToDoubleQuotes(t) ==
    IF (\A k \in 1..Len(t) : t[k] \notin {QuotedString, BraceString,
                                          CutBraceString})
       /\ (\E k \in 1..Len(t) : t[k] = SingleQuoted)
    THEN [k \in 1..Len(t) |-> IF t[k] = SingleQuoted THEN QuotedString ELSE t[k]]
    ELSE t

\* ArticleExtractor._fix_json(text), and the two re.sub of
\* HeaderExtractor._parse_json.
FixJson(extractor, t) ==
    IF extractor = "article" THEN SingleToDoubleQuotes(RemoveTrailingCommas(t))
    ELSE RemoveTrailingCommas(t)

\* Whether the character scan sees an opening, a closing brace in a lexeme.
HasOpenBrace(l) == l = "{"

HasCloseBrace(l) == l \in {"}", BraceString}

\* text[json_start:i + 1] for a closing brace in lexeme i.
JsonCandidate(t, json_start, i) ==
    IF t[i] = BraceString
    THEN SubSeq(t, json_start, i - 1) \o <<CutBraceString>>
    ELSE SubSeq(t, json_start, i)

\* The two json.loads of a candidate: as it is, then fixed.
LoadCandidate(extractor, candidate) ==
    IF JsonLoads(candidate) # None THEN JsonLoads(candidate)
    ELSE JsonLoads(FixJson(extractor, candidate))

\* The scan of _parse_json from lexeme i on; json_start 0 stands for None.
RECURSIVE ScanBraces(_, _, _, _, _)
RECURSIVE ScanClose(_, _, _, _, _, _)
ScanBraces(extractor, t, i, brace_depth, json_start) ==
    IF i > Len(t) THEN None
    ELSE IF HasOpenBrace(t[i])
    THEN ScanBraces(extractor, t, i + 1, brace_depth + 1,
                    IF brace_depth = 0 THEN i ELSE json_start)
    ELSE IF HasCloseBrace(t[i])
    THEN IF brace_depth - 1 = 0 /\ json_start # 0
         THEN ScanClose(extractor, t, i, brace_depth - 1, json_start,
                        LoadCandidate(extractor, JsonCandidate(t, json_start, i)))
         ELSE ScanBraces(extractor, t, i + 1, brace_depth - 1, json_start)
    ELSE ScanBraces(extractor, t, i + 1, brace_depth, json_start)

\* A candidate was tried at lexeme i: return it, or go on without a start.
ScanClose(extractor, t, i, brace_depth, json_start, loaded) ==
    IF loaded # None THEN loaded
    ELSE ScanBraces(extractor, t, i + 1, brace_depth, 0)

\* _parse_json(text) of the extractor.
ParseJson(extractor, t) ==
    IF JsonLoads(t) # None THEN JsonLoads(t)
    ELSE ScanBraces(extractor, t, 1, 0, 0)

-----------------------------------------------------------------------------
(* SpecParse: _parse_json of either extractor applied to a response made   *)
(* of at most MaxStray lexemes, an object or none, and at most MaxStray    *)
(* lexemes.                                                                *)

\* What surrounds the object in a response: commentary, blanks, a code
\* fence, a brace.
StrayLexemes == {"note", " ", "{", "}", Fence}

\* The objects of a response: none, plain, with trailing commas, empty,
\* with a brace in a string, single-quoted.
ResponseObjects ==
    {<<>>,
     <<"{", QuotedString, ":", "1", "}">>,
     <<"{", QuotedString, ":", "1", ",", " ", "}">>,
     <<"{", QuotedString, ":", "[", "1", ",", "]", ",", "}">>,
     <<"{", "}">>,
     <<"{", QuotedString, ":", BraceString, "}">>,
     <<"{", SingleQuoted, ":", "1", "}">>}

InitParse ==
    /\ pc = "parse"
    /\ llm_call \in {"header", "article"}
    /\ \E m \in 0..MaxStray, n \in 0..MaxStray :
           \E before \in [1..m -> StrayLexemes], after \in [1..n -> StrayLexemes],
              object \in ResponseObjects :
               raw_response = before \o object \o after
    /\ parsed = None
    /\ outcomes = <<>> /\ llm_response = None
    /\ ValidateIdle /\ ChunkerIdle /\ ProcessIdle /\ SplitterIdle
    /\ AssemblerIdle /\ HeaderIdle /\ RuleIdle /\ CleanIdle

\* parsed = self._parse_json(raw_response) of extract.
ParseJsonStep ==
    /\ pc = "parse"
    /\ parsed' = ParseJson(llm_call, raw_response)
    /\ pc' = "parse_done"
    /\ UNCHANGED raw_response
    /\ UNCHANGED call_vars
    /\ UNCHANGED validate_vars
    /\ UNCHANGED chunker_vars
    /\ UNCHANGED process_vars
    /\ UNCHANGED rule_vars
    /\ UNCHANGED clean_vars
    /\ UNCHANGED articles
    /\ UNCHANGED assembler_vars
    /\ UNCHANGED header_path
    /\ UNCHANGED run_vars
    /\ UNCHANGED thread_vars
    /\ UNCHANGED separation

NextParse == ParseJsonStep

SpecParse == InitParse /\ [][NextParse]_vars

\* A well-formed JSON object, trailing commas allowed.
IsObject(t) ==
    t # <<>> /\ Head(t) = "{" /\ JsonLoads(RemoveTrailingCommas(t)) # None

\* Text around the object: stray lexemes that hold no object themselves.
IsSurrounding(t) ==
    /\ \A k \in 1..Len(t) : t[k] \in StrayLexemes
    /\ \A i \in 1..Len(t) : \A j \in i..Len(t) : ~IsObject(SubSeq(t, i, j))

\* C17: _parse_json recovers the single well-formed object of a response,
\* whatever surrounds it (commentary, code fences, unmatched braces) and also
\* when it has trailing commas, and returns None only when no stretch of the
\* response from an opening to a closing brace parses.
C17_EmbeddedObjectRecovered ==
    pc = "parse_done" =>
        /\ \A i \in 1..Len(raw_response) : \A j \in i..Len(raw_response) :
               (/\ IsObject(SubSeq(raw_response, i, j))
                /\ IsSurrounding(SubSeq(raw_response, 1, i - 1))
                /\ IsSurrounding(SubSeq(raw_response, j + 1,
                                        Len(raw_response))))
                   => parsed = JsonLoads(RemoveTrailingCommas(
                                             SubSeq(raw_response, i, j)))
        /\ parsed = None =>
               \A i \in 1..Len(raw_response) : \A j \in i..Len(raw_response) :
                   (raw_response[i] = "{" /\ raw_response[j] = "}")
                       => LoadCandidate(llm_call, SubSeq(raw_response, i, j))
                              = None

-----------------------------------------------------------------------------
(* SpecPipeline: ParsingPipeline.parse, one step for each call of the       *)
(* model: the header extraction with the rough split, the extraction of     *)
(* each article, the assembly.                                              *)

\* The number of segments of a document given to ParsingPipeline.parse.
MaxParseSegments == 2

\* What a call of an extractor may end with: a timeout, an error, a JSON
\* object, commentary without an object, an object behind a stray brace.
ExtractorOutcomes ==
    {TimedOut, Failed,
     Responded(<<"{", QuotedString, ":", "1", "}">>),
     Responded(<<"note">>),
     Responded(<<"}", "{", "}">>)}

\* raw_response and parsed of extract for a call that ended with o.
ParsedResponse(extractor, o) ==
    IF CallLLM(o) = None THEN None ELSE ParseJson(extractor, CallLLM(o))

\* The return HeaderExtractor.extract takes (lines 32-49).
HeaderPath(o) ==
    IF CallLLM(o) = None THEN "llm_failed"
    ELSE IF ParsedResponse("header", o) = None THEN "json_failed"
    ELSE "built"

\* What ArticleExtractor.extract returns (lines 48-76); the objects of the
\* responses have no key "article_number" and none of the content keys,
\* for which data.get gives None and "".
ExtractArticle(o) ==
    IF ParsedResponse("article", o) = None THEN NoExtraction
    ELSE [present |-> TRUE, article_number |-> None,
          content_french |-> <<>>, content_arabic |-> <<>>]

\* "No articles found in document text."
NoArticlesWarning == <<"No articles found in document text.">>

InitPipeline ==
    /\ pc = "pipeline_header"
    /\ text \in DocsOf(MaxParseSegments)
    /\ max_chunk_chars = 0 /\ chunks = <<>>
    /\ articles = <<>>
    /\ HeaderIdle /\ AssemblerIdle /\ CallIdle /\ JsonIdle /\ RuleIdle /\ CleanIdle
    /\ ValidateIdle /\ ProcessIdle

\* Steps 1 and 2 of parse (lines 57-79): extract of the header extractor,
\* its call of the model ending with o, then rough_split.  A header built
\* from the model's JSON is printed with result.source_name (line 46), an
\* attribute a HeaderResult does not have; the fallback header depends on
\* the law type and number the regular expressions find.
ParseHeaderStep ==
    /\ pc = "pipeline_header"
    /\ \E o \in ExtractorOutcomes :
           /\ header_path' = HeaderPath(o)
           /\ IF HeaderPath(o) = "built"
              THEN /\ header' = ExtractedHeader(None, None)
                   /\ raised' = IF HasAttr(ExtractedHeader(None, None),
                                           "source_name")
                                THEN NotRaised ELSE "AttributeError"
              ELSE /\ \E lt \in LawTypes, ln \in LawNumbers :
                          header' = ExtractedHeader(lt, ln)
                   /\ raised' = NotRaised
    /\ IF raised' # NotRaised
       THEN /\ pc' = "pipeline_done"
            /\ UNCHANGED <<articles, warnings>>
       ELSE /\ articles' = RoughSplit(text)
            /\ IF RoughSplit(text) = <<>>
               THEN /\ warnings' = Append(warnings, NoArticlesWarning)
                    /\ pc' = "pipeline_done"
               ELSE /\ warnings' = warnings
                    /\ pc' = "pipeline_articles"
    /\ UNCHANGED <<raw_extractions, parsed_articles>>
    /\ UNCHANGED chunker_vars
    /\ UNCHANGED validate_vars
    /\ UNCHANGED process_vars
    /\ UNCHANGED rule_vars
    /\ UNCHANGED clean_vars
    /\ UNCHANGED call_vars
    /\ UNCHANGED json_vars
    /\ UNCHANGED run_vars
    /\ UNCHANGED thread_vars
    /\ UNCHANGED separation

\* One pass of the loop of step 3 (lines 92-99): extract of the article
\* extractor for the next rough article, its call ending with o.
ParseArticleStep ==
    /\ pc = "pipeline_articles"
    /\ Len(raw_extractions) < Len(articles)
    /\ \E o \in ExtractorOutcomes :
           raw_extractions' = Append(raw_extractions, ExtractArticle(o))
    /\ UNCHANGED <<pc, header, warnings, parsed_articles, raised, articles,
                   header_path>>
    /\ UNCHANGED chunker_vars
    /\ UNCHANGED validate_vars
    /\ UNCHANGED process_vars
    /\ UNCHANGED rule_vars
    /\ UNCHANGED clean_vars
    /\ UNCHANGED call_vars
    /\ UNCHANGED json_vars
    /\ UNCHANGED run_vars
    /\ UNCHANGED thread_vars
    /\ UNCHANGED separation

\* Step 4 and the return of parse (lines 106-144).
ParseAssembleStep ==
    /\ pc = "pipeline_articles"
    /\ Len(raw_extractions) = Len(articles)
    /\ LET r == AssembleArticles(header, raw_extractions, warnings) IN
           /\ parsed_articles' = r.articles
           /\ warnings' = r.warnings
           /\ raised' = r.raised
    /\ pc' = "pipeline_done"
    /\ UNCHANGED <<header, raw_extractions, articles, header_path>>
    /\ UNCHANGED chunker_vars
    /\ UNCHANGED validate_vars
    /\ UNCHANGED process_vars
    /\ UNCHANGED rule_vars
    /\ UNCHANGED clean_vars
    /\ UNCHANGED call_vars
    /\ UNCHANGED json_vars
    /\ UNCHANGED run_vars
    /\ UNCHANGED thread_vars
    /\ UNCHANGED separation

NextPipeline == ParseHeaderStep \/ ParseArticleStep \/ ParseAssembleStep

SpecPipeline == InitPipeline /\ [][NextPipeline]_vars

\* The warnings that are about neither an article nor the lack of articles.
OtherWarnings ==
    SelectSeq(warnings,
              LAMBDA w : /\ w # NoArticlesWarning
                         /\ \A i \in 1..Len(raw_extractions) :
                                w # SkippedWarning(i))

\* C19: a run of the parsing phase is never aborted by the failure of a
\* unit, and its result reports every one of them as a warning: the failure
\* of the header extraction (failed or timed-out call, unparseable output)
\* and the failure of each article.
C19_FailuresReportedAsWarnings ==
    pc = "pipeline_done" =>
        /\ raised = NotRaised
        /\ header_path \in {"llm_failed", "json_failed"}
               => OtherWarnings # <<>>
        /\ \A i \in 1..Len(raw_extractions) :
               raw_extractions[i] = NoExtraction
                   => \E k \in 1..Len(warnings) :
                          warnings[k] = SkippedWarning(i)

\* C23: when the document text contains no article marker, rough_split
\* returns an empty sequence and the parsing pipeline treats it as "no
\* articles": parse does not fail, its result has zero articles and the
\* warning about it, and no call is made for an article.
C23_NoMarkerMeansNoArticles ==
    (pc = "pipeline_done" /\ RoughSplit(text) = <<>>) =>
        /\ raised = NotRaised
        /\ articles = <<>>
        /\ parsed_articles = <<>>
        /\ raw_extractions = <<>>
        /\ \E k \in 1..Len(warnings) : warnings[k] = NoArticlesWarning

-----------------------------------------------------------------------------
(* SpecFallback: HeaderExtractor._regex_fallback on header texts made of a  *)
(* law type, the numero sign and a law number written digit by digit.       *)

\* The lexeme of "n" followed by the degree sign, and the en dash.
NumeroSign == "n[deg]"

EnDash == "[endash]"

IsDash(l) == l \in {"-", EnDash}

\* The end of the group of n[deg]\s*(\d{2,4}[-]?\d*) for the digits that
\* start at index j of t: two to four digits, a dash if there is one, the
\* digits after it.
LawNumberEnd(t, j) ==
    LET afterPrefix == IF SkipDigits(t, j) - j > 4 THEN j + 4
                       ELSE SkipDigits(t, j)
        afterDash == IF afterPrefix <= Len(t) /\ IsDash(t[afterPrefix])
                     THEN afterPrefix + 1 ELSE afterPrefix
    IN SkipDigits(t, afterDash)

\* Whether the pattern matches t at index i.
LawNumberAt(t, i) ==
    /\ t[i] = NumeroSign
    /\ SkipDigits(t, SkipSpace(t, i + 1)) - SkipSpace(t, i + 1) >= 2

\* law_number (lines 118-121): the group of the first match with its
\* dash written "-", None without a match.
LawNumberOf(t) ==
    LET found == {i \in 1..Len(t) : LawNumberAt(t, i)} IN
    IF found = {} THEN None
    ELSE LET i == CHOOSE m \in found : \A n \in found : m <= n
             j == SkipSpace(t, i + 1)
             group == SubSeq(t, j, LawNumberEnd(t, j) - 1)
         IN [k \in 1..Len(group) |-> IF IsDash(group[k]) THEN "-" ELSE group[k]]

\* law_type (lines 123-135) for the two words of the vocabulary, "Loi" and
\* "organique"; the other patterns match none of its lexemes.
LawTypeOf(t) ==
    IF \E i \in 1..Len(t) :
           /\ t[i] = "Loi" /\ i + 1 <= Len(t) /\ IsSpace(t[i + 1])
           /\ SkipSpace(t, i + 1) <= Len(t)
           /\ t[SkipSpace(t, i + 1)] = "organique"
    THEN <<"Loi", " ", "organique">>
    ELSE IF \E i \in 1..Len(t) : t[i] = "Loi" THEN <<"Loi">>
    ELSE None

\* law_number.split("-")[0]
BeforeDash(number) ==
    SubSeq(number, 1, (CHOOSE k \in 1..Len(number) :
                           /\ number[k] = "-"
                           /\ \A m \in 1..(k - 1) : number[m] # "-") - 1)

\* (1900 + y) if y > 30 else (2000 + y) if y < 100 else y
YearOfPrefix(y) ==
    IF y > 30 THEN 1900 + y ELSE IF y < 100 THEN 2000 + y ELSE y

\* re.search(r"(\d{4})", text): the first four digits in a row, as a
\* number; None without a match.
FirstFourDigits(t) ==
    LET found == {i \in 1..Len(t) : SkipDigits(t, i) - i >= 4} IN
    IF found = {} THEN None
    ELSE IntOf(SubSeq(t, CHOOSE m \in found : \A n \in found : m <= n,
                      (CHOOSE m \in found : \A n \in found : m <= n) + 3))

\* year (lines 137-146)
YearOf(t, number) ==
    IF number # None /\ \E k \in 1..Len(number) : number[k] = "-"
    THEN YearOfPrefix(IntOf(BeforeDash(number)))
    ELSE IF number # None THEN FirstFourDigits(t)
    ELSE None

\* _regex_fallback(text)
RegexFallback(t) ==
    HeaderResult(
        [law_type |-> LawTypeOf(t), law_number |-> LawNumberOf(t),
         year |-> YearOf(t, LawNumberOf(t)),
         parent_document_id |-> BuildParentId(LawTypeOf(t), LawNumberOf(t)),
         preamble_text |-> t])

\* The longest prefix of a law number.
MaxPrefixLen == 4

FallbackDigits == {"0", "1", "2", "3", "4", "9"}

\* What a header text begins with, and what follows the prefix of its law
\* number.
TypeParts == {<<>>, <<"Loi", " ">>, <<"Loi", " ", "organique", " ">>}

NumberTails == {<<>>, <<"-", "5">>, <<EnDash, "5">>, <<"-">>}

InitFallback ==
    /\ pc = "fallback"
    /\ \E ty \in TypeParts, n \in 0..MaxPrefixLen, tail \in NumberTails :
           \E prefix \in [1..n -> FallbackDigits] :
               text = IF n = 0 THEN ty
                      ELSE ty \o <<NumeroSign, " ">> \o prefix \o tail
    /\ max_chunk_chars = 0 /\ chunks = <<>>
    /\ articles = <<>>
    /\ HeaderIdle /\ AssemblerIdle /\ CallIdle /\ JsonIdle /\ RuleIdle /\ CleanIdle
    /\ ValidateIdle /\ ProcessIdle

\* return self._regex_fallback(header_text)
RegexFallbackStep ==
    /\ pc = "fallback"
    /\ header' = RegexFallback(text)
    /\ pc' = "fallback_done"
    /\ UNCHANGED <<raw_extractions, warnings, parsed_articles, raised>>
    /\ UNCHANGED chunker_vars
    /\ UNCHANGED validate_vars
    /\ UNCHANGED process_vars
    /\ UNCHANGED articles
    /\ UNCHANGED rule_vars
    /\ UNCHANGED clean_vars
    /\ UNCHANGED call_vars
    /\ UNCHANGED json_vars
    /\ UNCHANGED header_path
    /\ UNCHANGED run_vars
    /\ UNCHANGED thread_vars
    /\ UNCHANGED separation

NextFallback == RegexFallbackStep

SpecFallback == InitFallback /\ [][NextFallback]_vars

\* The fallback found a law number of the form prefix-n.
NumberWithDash ==
    /\ pc = "fallback_done"
    /\ header.law_number # None
    /\ \E k \in 1..Len(header.law_number) : header.law_number[k] = "-"

\* C30: the year the regex fallback derives from a law number prefix-n is
\* 1900 + prefix for a two-digit prefix greater than 30, 2000 + prefix for
\* a two-digit prefix of 30 or less, and the prefix itself for a prefix of
\* three or four digits.
C30_YearFromPrefix ==
    NumberWithDash =>
        LET prefix == BeforeDash(header.law_number) IN
        header.year = IF Len(prefix) = 2
                      THEN (IF IntOf(prefix) > 30 THEN 1900 + IntOf(prefix)
                            ELSE 2000 + IntOf(prefix))
                      ELSE IntOf(prefix)

-----------------------------------------------------------------------------
(* cleaners/rule_cleaner.py: RuleCleaner.clean and its six passes.  The     *)
(* vocabulary: two uppercase letters "AB", the uppercase consonant "N", the *)
(* lowercase word "fin", a period, a digit, the symbol "&", a blank, a      *)
(* newline, a non-breaking space and an Arabic letter.  None of the         *)
(* patterns that need a hyphen, a comma or a double quote can match.        *)

\* len(t)
RECURSIVE CharCount(_)
CharCount(t) ==
    IF t = <<>> THEN 0 ELSE CharLen(Head(t)) + CharCount(Tail(t))

\* LATIN_PATTERN, ARABIC_PATTERN, [A-Z] and [B-DF-HJ-NP-TV-Z] per lexeme.
IsLatin(l) == l \in {"AB", "N", "fin", "constitutionnelle"}

IsArabic(l) == l = ArabicLetter

IsUpper(l) == l \in {"AB", "N"}

IsLoneConsonant(l) == l = "N"

\* _normalize_characters(text): of CHAR_REPLACEMENTS the vocabulary has the
\* non-breaking space; NFC leaves the vocabulary as it is.
NormalizeCharacters(t) ==
    [k \in 1..Len(t) |-> IF t[k] = NoBreakSpace THEN " " ELSE t[k]]

\* The index of the first newline of t, 0 if it has none.
RECURSIVE FirstNewline(_, _)
FirstNewline(t, i) ==
    IF i > Len(t) THEN 0
    ELSE IF t[i] = "\n" THEN i
    ELSE FirstNewline(t, i + 1)

\* text.splitlines()
RECURSIVE SplitLines(_)
SplitLines(t) ==
    IF t = <<>> THEN <<>>
    ELSE IF FirstNewline(t, 1) = 0 THEN <<t>>
    ELSE <<SubSeq(t, 1, FirstNewline(t, 1) - 1)>>
             \o SplitLines(SubSeq(t, FirstNewline(t, 1) + 1, Len(t)))

\* "\n".join(lines)
RECURSIVE JoinLines(_)
JoinLines(lines) ==
    IF lines = <<>> THEN <<>>
    ELSE IF Len(lines) = 1 THEN lines[1]
    ELSE lines[1] \o <<"\n">> \o JoinLines(Tail(lines))

\* Whether \.\s*\d{1,3}\s*$ matches the line at lexeme i.
DotDigitsEndAt(line, i) ==
    /\ i <= Len(line) /\ line[i] = "."
    /\ SkipDigits(line, SkipSpace(line, i + 1)) - SkipSpace(line, i + 1)
           \in 1..3
    /\ SkipSpace(line, SkipDigits(line, SkipSpace(line, i + 1)))
           = Len(line) + 1

\* Whether every lexeme of the line is in the set, the line not empty.
OnlyOf(line, set) == line # <<>> /\ \A k \in 1..Len(line) : line[k] \in set

\* NOISE_LINE_PATTERN.match(line): at most five blanks and non-word
\* characters.
NoiseLinePattern(line) ==
    (\A k \in 1..Len(line) : line[k] \in {" ", ".", "&"})
        /\ CharCount(line) <= 5

\* STRAY_ARTIFACT_PATTERNS, each with match(): the pattern must match where
\* the line starts.  The fourth needs a hyphen.
StrayArtifactPattern(line) ==
    \/ DotDigitsEndAt(line, 1)
    \/ OnlyOf(Strip(line), {"&"})
    \/ OnlyOf(Strip(line), {"AB", "N"}) /\ CharCount(Strip(line)) <= 2
    \/ OnlyOf(Strip(line), {"."})

\* has_letters of _is_noise_line
HasLetters(line) == \E k \in 1..Len(line) : IsArabic(line[k]) \/ IsLatin(line[k])

\* _is_noise_line(line)
IsNoiseLine(line) ==
    \/ NoiseLinePattern(line)
    \/ StrayArtifactPattern(line)
    \/ ~HasLetters(line) /\ CharCount(line) < 10

\* The lines _remove_noise_lines keeps, and the number it removes.
RECURSIVE KeptLines(_)
KeptLines(lines) ==
    IF lines = <<>> THEN <<>>
    ELSE IF Strip(Head(lines)) = <<>> THEN <<<<>>>> \o KeptLines(Tail(lines))
    ELSE IF IsNoiseLine(Strip(Head(lines))) THEN KeptLines(Tail(lines))
    ELSE <<Head(lines)>> \o KeptLines(Tail(lines))

RECURSIVE RemovedCount(_)
RemovedCount(lines) ==
    IF lines = <<>> THEN 0
    ELSE (IF Strip(Head(lines)) # <<>> /\ IsNoiseLine(Strip(Head(lines)))
          THEN 1 ELSE 0) + RemovedCount(Tail(lines))

\* _remove_noise_lines(text): the text and the count.
RemoveNoiseLines(t) ==
    [text |-> JoinLines(KeptLines(SplitLines(t))),
     removed_count |-> RemovedCount(SplitLines(t))]

\* re.sub(r"\.\s*\d{1,3}\s*$", "", line): the line up to the leftmost match.
RECURSIVE RemoveDotDigits(_, _)
RemoveDotDigits(line, i) ==
    IF i > Len(line) THEN line
    ELSE IF DotDigitsEndAt(line, i) THEN SubSeq(line, 1, i - 1)
    ELSE RemoveDotDigits(line, i + 1)

\* The first index >= j of the line that holds no "&".
RECURSIVE SkipSymbols(_, _)
SkipSymbols(line, j) ==
    IF j <= Len(line) /\ line[j] = "&" THEN SkipSymbols(line, j + 1) ELSE j

\* Whether \s+[&@#]+\s*$ matches the line at lexeme i.
SymbolsEndAt(line, i) ==
    /\ i <= Len(line) /\ IsSpace(line[i])
    /\ SkipSymbols(line, SkipSpace(line, i)) > SkipSpace(line, i)
    /\ SkipSpace(line, SkipSymbols(line, SkipSpace(line, i))) = Len(line) + 1

\* re.sub(r"\s+[&@#]+\s*$", "", line)
RECURSIVE RemoveTrailingSymbols(_, _)
RemoveTrailingSymbols(line, i) ==
    IF i > Len(line) THEN line
    ELSE IF SymbolsEndAt(line, i) THEN SubSeq(line, 1, i - 1)
    ELSE RemoveTrailingSymbols(line, i + 1)

\* Whether \s+[B-DF-HJ-NP-TV-Z]\s+ matches the line at lexeme i.
LoneConsonantAt(line, i) ==
    /\ IsSpace(line[i])
    /\ SkipSpace(line, i) + 1 <= Len(line)
    /\ IsLoneConsonant(line[SkipSpace(line, i)])
    /\ IsSpace(line[SkipSpace(line, i) + 1])

\* re.sub(r"\s+[B-DF-HJ-NP-TV-Z]\s+", " ", line) from lexeme i on.
RECURSIVE RemoveLoneConsonants(_, _)
RemoveLoneConsonants(line, i) ==
    IF i > Len(line) THEN <<>>
    ELSE IF LoneConsonantAt(line, i)
    THEN <<" ">> \o RemoveLoneConsonants(
                        line, SkipSpace(line, SkipSpace(line, i) + 1))
    ELSE <<line[i]>> \o RemoveLoneConsonants(line, i + 1)

\* The body of the loop of _clean_stray_artifacts for one line; the third
\* pattern needs a hyphen.
CleanLine(line) ==
    RemoveLoneConsonants(
        RemoveTrailingSymbols(RemoveDotDigits(line, 1), 1), 1)

\* _clean_stray_artifacts(text)
CleanStrayArtifacts(t) ==
    JoinLines([k \in 1..Len(SplitLines(t)) |-> CleanLine(SplitLines(t)[k])])

\* len(PATTERN.findall(line)) for the letters of a kind.
RECURSIVE LetterCount(_, _)
LetterCount(line, arabic) ==
    IF line = <<>> THEN 0
    ELSE (IF arabic /\ IsArabic(Head(line)) THEN 1
          ELSE IF ~arabic /\ IsLatin(Head(line)) THEN Len(Head(line))
          ELSE 0) + LetterCount(Tail(line), arabic)

\* re.sub(r"\s{2,}", " ", line)
RECURSIVE CollapseSpaces(_, _)
CollapseSpaces(line, i) ==
    IF i > Len(line) THEN <<>>
    ELSE IF IsSpace(line[i]) /\ SkipSpace(line, i) >= i + 2
    THEN <<" ">> \o CollapseSpaces(line, SkipSpace(line, i))
    ELSE <<line[i]>> \o CollapseSpaces(line, i + 1)

\* WithoutArabic with a pattern that matches no letter.
WithoutArabic_KeepsArabic(line) == Strip(CollapseSpaces(line, 1))

\* PATTERN.sub("", line), the blanks collapsed, stripped.
WithoutArabic(line) ==
    Strip(CollapseSpaces(SelectSeq(line, LAMBDA l : ~IsArabic(l)), 1))

WithoutLatin(line) ==
    Strip(CollapseSpaces(SelectSeq(line, LAMBDA l : ~IsLatin(l)), 1))

\* What _separate_languages appends to french_lines and to arabic_lines
\* for a line: a sequence of no line or one line each.  arabic_ratio is
\* the correctly rounded quotient a / total, which compares with the
\* literals 0.6 and 0.15 as the fractions do for counts of this size.
\* FrenchOf with >= for the first comparison.
FrenchOf_NonStrict(line, a, total) ==
    IF Strip(line) = <<>> THEN <<<<>>>>
    ELSE IF total = 0 THEN <<line>>
    ELSE IF 10 * a >= 6 * total THEN <<>>
    ELSE IF 100 * a < 15 * total THEN <<WithoutArabic(line)>>
    ELSE IF WithoutArabic(line) # <<>> THEN <<WithoutArabic(line)>>
    ELSE <<>>

FrenchOf(line, a, total) ==
    IF Strip(line) = <<>> THEN <<<<>>>>
    ELSE IF total = 0 THEN <<line>>
    ELSE IF 10 * a > 6 * total THEN <<>>
    ELSE IF 100 * a < 15 * total THEN <<WithoutArabic(line)>>
    ELSE IF WithoutArabic(line) # <<>> THEN <<WithoutArabic(line)>>
    ELSE <<>>

ArabicOf(line, a, total) ==
    IF Strip(line) = <<>> THEN <<<<>>>>
    ELSE IF total = 0 THEN <<>>
    ELSE IF 10 * a > 6 * total THEN <<line>>
    ELSE IF 100 * a < 15 * total THEN <<>>
    ELSE IF WithoutLatin(line) # <<>> THEN <<WithoutLatin(line)>>
    ELSE <<>>

RECURSIVE FrenchLines(_)
FrenchLines(lines) ==
    IF lines = <<>> THEN <<>>
    ELSE FrenchOf(Head(lines), LetterCount(Head(lines), TRUE),
                  LetterCount(Head(lines), TRUE)
                      + LetterCount(Head(lines), FALSE))
             \o FrenchLines(Tail(lines))

RECURSIVE ArabicLines(_)
ArabicLines(lines) ==
    IF lines = <<>> THEN <<>>
    ELSE ArabicOf(Head(lines), LetterCount(Head(lines), TRUE),
                  LetterCount(Head(lines), TRUE)
                      + LetterCount(Head(lines), FALSE))
             \o ArabicLines(Tail(lines))

\* _separate_languages(text)
SeparateLanguages(t) ==
    [french |-> JoinLines(FrenchLines(SplitLines(t))),
     arabic |-> JoinLines(ArabicLines(SplitLines(t)))]

\* re.sub(r"[^\S\n]+", " ", text): a run of blanks becomes one blank.
RECURSIVE CollapseBlanks(_)
CollapseBlanks(t) ==
    IF Len(t) < 2 THEN t
    ELSE IF t[1] = " " /\ t[2] = " " THEN CollapseBlanks(Tail(t))
    ELSE <<Head(t)>> \o CollapseBlanks(Tail(t))

\* re.sub(r"^ +| +$", "", text, flags=re.MULTILINE) of a text whose runs of
\* blanks are single: the blanks at the start and at the end of a line go.
TrimLines(t) ==
    SelectSeq([k \in 1..Len(t) |->
                  IF t[k] = " " /\ (k = 1 \/ t[k - 1] = "\n"
                                    \/ k = Len(t) \/ t[k + 1] = "\n")
                  THEN "" ELSE t[k]],
              LAMBDA l : l # "")

\* The first index >= j of t that holds no newline.
RECURSIVE SkipNewlines(_, _)
SkipNewlines(t, j) ==
    IF j <= Len(t) /\ t[j] = "\n" THEN SkipNewlines(t, j + 1) ELSE j

\* re.sub(r"\n{4,}", "\n\n\n", text)
RECURSIVE CollapseBlankLines(_, _)
CollapseBlankLines(t, i) ==
    IF i > Len(t) THEN <<>>
    ELSE IF t[i] = "\n" /\ SkipNewlines(t, i) >= i + 4
    THEN <<"\n", "\n", "\n">> \o CollapseBlankLines(t, SkipNewlines(t, i))
    ELSE <<t[i]>> \o CollapseBlankLines(t, i + 1)

\* _normalize_whitespace(text)
NormalizeWhitespace(t) == CollapseBlankLines(TrimLines(CollapseBlanks(t)), 1)

\* re.sub(r"\.(?=[A-Z])", ". ", text) for upper, and
\* re.sub(r"([,\.])(?=[a-zA-ZÀ-ÿ])", r"\1 ", text) otherwise.
RECURSIVE SpaceAfterPeriod(_, _)
SpaceAfterPeriod(t, upper) ==
    IF t = <<>> THEN <<>>
    ELSE IF Len(t) >= 2 /\ t[1] = "."
            /\ (IF upper THEN IsUpper(t[2]) ELSE IsLatin(t[2]))
    THEN <<".", " ">> \o SpaceAfterPeriod(Tail(t), upper)
    ELSE <<Head(t)>> \o SpaceAfterPeriod(Tail(t), upper)

\* re.sub(r"\s+([,\.])", r"\1", text)
RECURSIVE NoSpaceBeforePeriod(_, _)
NoSpaceBeforePeriod(t, i) ==
    IF i > Len(t) THEN <<>>
    ELSE IF IsSpace(t[i]) /\ SkipSpace(t, i) <= Len(t)
            /\ t[SkipSpace(t, i)] = "."
    THEN NoSpaceBeforePeriod(t, SkipSpace(t, i))
    ELSE <<t[i]>> \o NoSpaceBeforePeriod(t, i + 1)

\* _fix_punctuation(text); the first and the third pattern need a double
\* quote and a hyphen.
FixPunctuation(t) ==
    SpaceAfterPeriod(NoSpaceBeforePeriod(SpaceAfterPeriod(t, TRUE), 1), FALSE)

\* cleaned_text: the streams that are not blank, a blank line between them.
CombineStreams(french, arabic) ==
    JoinParagraphs(SelectSeq(<<Strip(french), Strip(arabic)>>,
                             LAMBDA part : part # <<>>))

\* The RuleCleanerResult, passes 4 to 6 done on the separated streams.
RuleCleanerResult(original, noise, separated) ==
    [cleaned_text |->
         CombineStreams(FixPunctuation(NormalizeWhitespace(separated.french)),
                        NormalizeWhitespace(separated.arabic)),
     french_text |->
         Strip(FixPunctuation(NormalizeWhitespace(separated.french))),
     arabic_text |-> Strip(NormalizeWhitespace(separated.arabic)),
     noise_lines_removed |-> noise.removed_count,
     noise_chars_removed |->
         IF CharCount(original) >
                CharCount(CombineStreams(
                    FixPunctuation(NormalizeWhitespace(separated.french)),
                    NormalizeWhitespace(separated.arabic)))
         THEN CharCount(original)
                  - CharCount(CombineStreams(
                        FixPunctuation(NormalizeWhitespace(separated.french)),
                        NormalizeWhitespace(separated.arabic)))
         ELSE 0]

\* Passes 3 to 6 after the noise lines are removed.
CleanAfterNoise(original, noise) ==
    RuleCleanerResult(original, noise,
                      SeparateLanguages(CleanStrayArtifacts(noise.text)))

\* RuleCleaner.clean(text)
RuleClean(t) == CleanAfterNoise(t, RemoveNoiseLines(NormalizeCharacters(t)))

-----------------------------------------------------------------------------
(* SpecRules: RuleCleaner.clean applied to every text of at most MaxRuleLen *)
(* lexemes, and applied again to the text it returns.                       *)

MaxRuleLen == 4

RuleAlphabet ==
    {"AB", "N", "fin", ".", "6", "&", " ", "\n", NoBreakSpace, ArabicLetter}

InitRules ==
    /\ pc = "rule_clean"
    /\ \E n \in 0..MaxRuleLen : text \in [1..n -> RuleAlphabet]
    /\ max_chunk_chars = 0 /\ chunks = <<>>
    /\ RuleIdle /\ CleanIdle
    /\ ValidateIdle /\ ProcessIdle /\ SplitterIdle
    /\ AssemblerIdle /\ CallIdle /\ JsonIdle /\ HeaderIdle

\* rule_result = self.rule_cleaner.clean(text)
RuleCleanStep ==
    /\ pc = "rule_clean"
    /\ rule_result' = RuleClean(text)
    /\ pc' = "rule_cleaned"
    /\ UNCHANGED second_result
    /\ UNCHANGED clean_vars
    /\ UNCHANGED chunker_vars
    /\ UNCHANGED validate_vars
    /\ UNCHANGED process_vars
    /\ UNCHANGED articles
    /\ UNCHANGED parser_vars
    /\ UNCHANGED run_vars
    /\ UNCHANGED thread_vars
    /\ UNCHANGED separation

\* RuleCleaner.clean applied to the cleaned text of the first pass.
RuleCleanAgainStep ==
    /\ pc = "rule_cleaned"
    /\ second_result' = RuleClean(rule_result.cleaned_text)
    /\ pc' = "rule_cleaned_again"
    /\ UNCHANGED rule_result
    /\ UNCHANGED clean_vars
    /\ UNCHANGED chunker_vars
    /\ UNCHANGED validate_vars
    /\ UNCHANGED process_vars
    /\ UNCHANGED articles
    /\ UNCHANGED parser_vars
    /\ UNCHANGED run_vars
    /\ UNCHANGED thread_vars
    /\ UNCHANGED separation

NextRules == RuleCleanStep \/ RuleCleanAgainStep

SpecRules == InitRules /\ [][NextRules]_vars

\* C20: RuleCleaner.clean applied to its own output removes no noise line
\* and returns the French and the Arabic text of the first pass.
C20_SecondPassChangesNothing ==
    pc = "rule_cleaned_again" =>
        /\ second_result.noise_lines_removed = 0
        /\ second_result.french_text = rule_result.french_text
        /\ second_result.arabic_text = rule_result.arabic_text

-----------------------------------------------------------------------------
(* SpecSeparate: RuleCleaner._separate_languages for every text of up to    *)
(* MaxSeparateLen lexemes, among them a Latin word of 17 letters so that a  *)
(* line of three Arabic letters has the ratios 3/5 and 3/20.                *)

MaxSeparateLen == 4

SeparateAlphabet ==
    {ArabicLetter, "AB", "constitutionnelle", "6", " ", "\n"}

InitSeparate ==
    /\ pc = "separate"
    /\ \E n \in 0..MaxSeparateLen : text \in [1..n -> SeparateAlphabet]
    /\ max_chunk_chars = 0 /\ chunks = <<>>
    /\ RuleIdle /\ CleanIdle
    /\ ValidateIdle /\ ProcessIdle /\ SplitterIdle
    /\ AssemblerIdle /\ CallIdle /\ JsonIdle /\ HeaderIdle

\* french_text, arabic_text = self._separate_languages(text)
SeparateStep ==
    /\ pc = "separate"
    /\ separation' = SeparateLanguages(text)
    /\ pc' = "separated"
    /\ UNCHANGED rule_vars
    /\ UNCHANGED clean_vars
    /\ UNCHANGED chunker_vars
    /\ UNCHANGED validate_vars
    /\ UNCHANGED process_vars
    /\ UNCHANGED articles
    /\ UNCHANGED parser_vars
    /\ UNCHANGED run_vars
    /\ UNCHANGED thread_vars

NextSeparate == SeparateStep

SpecSeparate == InitSeparate /\ [][NextSeparate]_vars

\* arabic_chars and total of the text when it is one line.
ArabicChars == LetterCount(text, TRUE)

TotalChars == LetterCount(text, TRUE) + LetterCount(text, FALSE)

\* The text is one line with a letter of either script.
OneLineSeparated ==
    /\ pc = "separated"
    /\ \A k \in 1..Len(text) : text[k] # "\n"
    /\ TotalChars > 0

\* C24: with a the Arabic-range characters of a line and t = a + its Latin
\* letters, t > 0: the line goes whole to the Arabic stream alone iff
\* a/t > 0.6, and to the French stream alone, its Arabic characters
\* removed, iff a/t < 0.15; every other line, the ratios 0.6 and 0.15
\* included, is split into both streams.
C24_StrictThresholds ==
    OneLineSeparated =>
        /\ (separation.french = <<>> /\ separation.arabic = text)
               <=> 10 * ArabicChars > 6 * TotalChars
        /\ (separation.arabic = <<>> /\ separation.french = WithoutArabic(text))
               <=> 100 * ArabicChars < 15 * TotalChars
        /\ (10 * ArabicChars <= 6 * TotalChars
                /\ 100 * ArabicChars >= 15 * TotalChars)
               => /\ separation.french = WithoutArabic(text)
                  /\ separation.arabic = WithoutLatin(text)
                  /\ separation.french # <<>>
                  /\ separation.arabic # <<>>

\* C24: a line of three Arabic letters and two Latin ones, ratio 0.6,
\* has been split into both streams.
C24_Witness ==
    /\ OneLineSeparated
    /\ ArabicChars = 3 /\ TotalChars = 5
    /\ separation.french # <<>> /\ separation.arabic # <<>>

\* C29: for every input text, the French stream that language separation
\* returns contains no Arabic-range character.
C29_FrenchStreamHasNoArabic ==
    pc = "separated" =>
        \A k \in 1..Len(separation.french) : ~IsArabic(separation.french[k])

\* C29: a text with Arabic letters has been separated and part of a line
\* that held one of them is in the French stream.
C29_Witness ==
    /\ pc = "separated"
    /\ \E k \in 1..Len(text) : IsArabic(text[k])
    /\ \E k \in 1..Len(separation.french) : IsLatin(separation.french[k])
    /\ \E k \in 1..Len(separation.arabic) : IsArabic(separation.arabic[k])
    /\ \A k \in 1..Len(text) : text[k] # "\n"

-----------------------------------------------------------------------------
(* The cleaning phase: CleaningPipeline.clean of cleaners/pipeline.py, with *)
(* LLMCleaner.is_available and LLMCleaner.clean of cleaners/llm_cleaner.py. *)

\* What the ollama service holds of the configured model when the pipeline
\* asks: the service does not answer; it answers and lists the model; it
\* answers without listing the model, and a chat with the model fails; it
\* answers without listing the model, and a chat with the model returns.
OllamaModels == {"unreachable", "listed", "missing", "loads_on_chat"}

\* _try_pull_model with every test chat taken to return.
TryPullModel_AlwaysLoads(models) == TRUE

\* LLMCleaner._try_pull_model: whether the test chat returns.
TryPullModel(models) == models = "loads_on_chat"

\* str(b) of a bool, as the cache holds it.
BoolStr(b) == IF b THEN "True" ELSE "False"

\* LLMCleaner.is_available(): the cached answer when there is one; else
\* False when ollama.list() raises, True when the model is listed, and the
\* answer of _try_pull_model otherwise.
IsAvailable(cache, models) ==
    IF cache # "None" THEN cache = "True"
    ELSE IF models = "unreachable" THEN FALSE
    ELSE IF models = "listed" THEN TRUE
    ELSE TryPullModel(models)

\* The calls ollama has received once is_available has returned.
CallsOfIsAvailable(cache, models, calls) ==
    IF cache # "None" THEN calls
    ELSE IF models \in {"unreachable", "listed"}
    THEN [calls EXCEPT !.list = @ + 1]
    ELSE [calls EXCEPT !.list = @ + 1, !.test = @ + 1]

\* How _call_ollama ends for a chunk: the attempts it made and what it
\* returned: None after max_retries + 1 failed attempts, else the chunk, the
\* chunk under a line of commentary, or another text.
CallChoices ==
    {[attempts |-> max_retries + 1, kind |-> "none"]}
        \cup {[attempts |-> n, kind |-> k] :
                  n \in 1..(max_retries + 1),
                  k \in {"same", "commentary", "other"}}

Returned(c, choice) ==
    CASE choice.kind = "none" -> None
      [] choice.kind = "same" -> c
      [] choice.kind = "commentary" -> <<"Here", " ">> \o c
      [] OTHER -> <<"fin">>

\* The loop body of _process_text for chunk number k, given its result.
AfterChunk(acc, result, k, choice) ==
    [out |-> Append(acc.out, ChunkOutput(result)),
     stats |-> StatsAfter(acc.stats, result, k),
     attempts |-> acc.attempts + choice.attempts]

\* The loop of _process_text from chunk number k on.
RECURSIVE ProcessFrom(_, _, _, _)
ProcessFrom(cs, rs, k, acc) ==
    IF k > Len(cs) THEN acc
    ELSE IF Strip(cs[k]) = <<>>
    THEN ProcessFrom(cs, rs, k + 1, [acc EXCEPT !.out = Append(@, cs[k])])
    ELSE ProcessFrom(cs, rs, k + 1,
             AfterChunk(acc, CorrectChunk(cs[k], Returned(cs[k], rs[k])),
                        k, rs[k]))

\* _process_text(text, language), rs the way each call of the model ends.
ProcessText(cs, rs) ==
    ProcessFrom(cs, rs, 1,
                [out |-> <<>>, stats |-> [NoStats EXCEPT !.chunks = Len(cs)],
                 attempts |-> 0])

\* The chunks of a stream LLMCleaner.clean sends to the model.
StreamChunks(t) ==
    IF Strip(t) = <<>> THEN <<>> ELSE SplitIntoChunks(t, DefaultMaxChunkChars)

\* What LLMCleaner.clean keeps of a stream: the text, the statistics and
\* the number of calls made.
StreamResult(t, processed) ==
    IF Strip(t) = <<>>
    THEN [cleaned |-> t, stats |-> NoStats, attempts |-> 0]
    ELSE [cleaned |-> JoinParagraphs(processed.out),
          stats |-> processed.stats, attempts |-> processed.attempts]

\* stats["warnings"] of a stream as LLMCleaner.clean passes them on.
StreamWarnings(st, language) ==
    [k \in 1..Len(st.warnings) |->
        [kind |-> "chunk", language |-> language,
         chunk_num |-> st.warnings[k].chunk_num,
         reason |-> st.warnings[k].reason]]

\* The warning of LLMCleaner.clean when is_available() is false.
NotFoundWarning == [kind |-> "ollama_not_available_or_model_not_found"]

\* The warning of CleaningPipeline.clean when is_available() is false.
NotAvailableWarning == [kind |-> "ollama_not_available"]

RejectedWarning(n) == [kind |-> "chunks_rejected", count |-> n]

\* The LLMCleanerResult of LLMCleaner.clean, from the results of the two
\* streams.
LLMCleanerResult(available, french_text, arabic_text, fr, ar) ==
    IF ~available
    THEN [cleaned_french |-> french_text, cleaned_arabic |-> arabic_text,
          chunks_processed |-> 0, chunks_modified |-> 0,
          chunks_rejected |-> 0, llm_available |-> FALSE,
          warnings |-> <<NotFoundWarning>>, attempts |-> 0]
    ELSE [cleaned_french |-> fr.cleaned, cleaned_arabic |-> ar.cleaned,
          chunks_processed |-> fr.stats.chunks + ar.stats.chunks,
          chunks_modified |-> fr.stats.modified + ar.stats.modified,
          chunks_rejected |-> fr.stats.rejected + ar.stats.rejected,
          llm_available |-> TRUE,
          warnings |-> StreamWarnings(fr.stats, "french")
                           \o StreamWarnings(ar.stats, "arabic"),
          attempts |-> fr.attempts + ar.attempts]

\* LLMCleaner.clean(french_text, arabic_text), rf and ra the way each call
\* of the model ends for the chunks of the two streams.
LLMClean(available, french_text, arabic_text, rf, ra) ==
    LLMCleanerResult(available, french_text, arabic_text,
        StreamResult(french_text, ProcessText(StreamChunks(french_text), rf)),
        StreamResult(arabic_text, ProcessText(StreamChunks(arabic_text), ra)))

\* cleaned_text of CleaningPipeline.clean: the stripped streams that are
\* not empty, joined by a blank line.
CleanedText(french_text, arabic_text) ==
    IF Strip(french_text) # <<>> /\ Strip(arabic_text) # <<>>
    THEN Strip(french_text) \o ParagraphBreak \o Strip(arabic_text)
    ELSE Strip(french_text) \o Strip(arabic_text)

\* The CleaningResult CleaningPipeline.clean returns.
CleaningResult(french, arabic, available, processed, corrected, warns) ==
    [french_text |-> Strip(french), arabic_text |-> Strip(arabic),
     cleaned_text |-> CleanedText(french, arabic),
     llm_available |-> available,
     chunks_processed |-> processed,
     chunks_corrected_by_llm |-> corrected,
     warnings |-> warns]

\* The warnings of CleaningPipeline.clean after LLMCleaner.clean returned.
WarningsAfterLLM(llm_result) ==
    IF llm_result.chunks_rejected > 0
    THEN Append(llm_result.warnings, RejectedWarning(llm_result.chunks_rejected))
    ELSE llm_result.warnings

\* The CleaningResult of the branch that ran LLMCleaner.clean.
ResultWithLLM(llm_result) ==
    CleaningResult(llm_result.cleaned_french, llm_result.cleaned_arabic,
                   llm_result.llm_available, llm_result.chunks_processed,
                   llm_result.chunks_modified, WarningsAfterLLM(llm_result))

\* The CleaningResult of the branches that did not: the streams of the rule
\* cleaner, with the warnings given.
ResultWithoutLLM(rules, warns) ==
    CleaningResult(rules.french_text, rules.arabic_text, FALSE, 0, 0, warns)

-----------------------------------------------------------------------------
(* SpecClean: CleaningPipeline.clean on every text of at most MaxCleanLen   *)
(* lexemes, for every state of the ollama service and every way the calls   *)
(* of the model end.                                                        *)

MaxCleanLen == 2

InitClean ==
    /\ pc = "clean"
    /\ \E n \in 0..MaxCleanLen : text \in [1..n -> RuleAlphabet]
    /\ max_chunk_chars = DefaultMaxChunkChars /\ chunks = <<>>
    /\ skip_llm \in BOOLEAN
    /\ ollama_models \in OllamaModels
    /\ is_available = "None"
    /\ ollama_calls = NoCalls
    /\ cleaning_result = NoCleaningResult
    /\ RunIdle /\ ThreadIdle /\ SeparateIdle
    /\ RuleIdle
    /\ ValidateIdle /\ ProcessIdle /\ SplitterIdle
    /\ AssemblerIdle /\ CallIdle /\ JsonIdle /\ HeaderIdle

\* Layer 1 (lines 55-82): rule_result = self.rule_cleaner.clean(text)
CleanRulesStep ==
    /\ pc = "clean"
    /\ rule_result' = RuleClean(text)
    /\ pc' = "clean_layer2"
    /\ UNCHANGED second_result
    /\ UNCHANGED clean_vars
    /\ UNCHANGED chunker_vars
    /\ UNCHANGED validate_vars
    /\ UNCHANGED process_vars
    /\ UNCHANGED articles
    /\ UNCHANGED parser_vars
    /\ UNCHANGED run_vars
    /\ UNCHANGED thread_vars
    /\ UNCHANGED separation

\* Layer 2 skipped (line 131), and the result assembled.
CleanSkipLLMStep ==
    /\ pc = "clean_layer2"
    /\ skip_llm
    /\ cleaning_result' = ResultWithoutLLM(rule_result, <<>>)
    /\ pc' = "clean_done"
    /\ UNCHANGED <<skip_llm, ollama_models, is_available, ollama_calls>>
    /\ UNCHANGED rule_vars
    /\ UNCHANGED chunker_vars
    /\ UNCHANGED validate_vars
    /\ UNCHANGED process_vars
    /\ UNCHANGED articles
    /\ UNCHANGED parser_vars
    /\ UNCHANGED run_vars
    /\ UNCHANGED thread_vars
    /\ UNCHANGED separation

\* Layer 2 when is_available() is false (lines 94, 127-129), and the result
\* assembled.
CleanUnavailableStep ==
    /\ pc = "clean_layer2"
    /\ ~skip_llm
    /\ ~IsAvailable(is_available, ollama_models)
    /\ is_available' = BoolStr(IsAvailable(is_available, ollama_models))
    /\ ollama_calls' =
           CallsOfIsAvailable(is_available, ollama_models, ollama_calls)
    /\ cleaning_result' = ResultWithoutLLM(rule_result, <<NotAvailableWarning>>)
    /\ pc' = "clean_done"
    /\ UNCHANGED <<skip_llm, ollama_models>>
    /\ UNCHANGED rule_vars
    /\ UNCHANGED chunker_vars
    /\ UNCHANGED validate_vars
    /\ UNCHANGED process_vars
    /\ UNCHANGED articles
    /\ UNCHANGED parser_vars
    /\ UNCHANGED run_vars
    /\ UNCHANGED thread_vars
    /\ UNCHANGED separation

\* The calls ollama has received once LLMCleaner.clean has returned.
CallsAfterLLM(calls, llm_result) ==
    [calls EXCEPT !.correct = @ + llm_result.attempts]

\* Layer 2 when is_available() is true (lines 94-126): LLMCleaner.clean on
\* the two streams of the rule cleaner, and the result assembled.
CleanWithLLMStep ==
    /\ pc = "clean_layer2"
    /\ ~skip_llm
    /\ IsAvailable(is_available, ollama_models)
    /\ is_available' = BoolStr(IsAvailable(is_available, ollama_models))
    /\ \E rf \in [1..Len(StreamChunks(rule_result.french_text)) -> CallChoices],
          ra \in [1..Len(StreamChunks(rule_result.arabic_text)) -> CallChoices] :
           /\ cleaning_result' =
                  ResultWithLLM(LLMClean(TRUE, rule_result.french_text,
                                         rule_result.arabic_text, rf, ra))
           /\ ollama_calls' =
                  CallsAfterLLM(
                      CallsOfIsAvailable(is_available, ollama_models,
                                         ollama_calls),
                      LLMClean(TRUE, rule_result.french_text,
                               rule_result.arabic_text, rf, ra))
    /\ pc' = "clean_done"
    /\ UNCHANGED <<skip_llm, ollama_models>>
    /\ UNCHANGED rule_vars
    /\ UNCHANGED chunker_vars
    /\ UNCHANGED validate_vars
    /\ UNCHANGED process_vars
    /\ UNCHANGED articles
    /\ UNCHANGED parser_vars
    /\ UNCHANGED run_vars
    /\ UNCHANGED thread_vars
    /\ UNCHANGED separation

NextClean ==
    CleanRulesStep \/ CleanSkipLLMStep \/ CleanUnavailableStep
        \/ CleanWithLLMStep

SpecClean == InitClean /\ [][NextClean]_vars

\* The language model is unavailable: the service is unreachable, or the
\* model is missing from it.
ModelUnavailable == ollama_models \in {"unreachable", "missing"}

\* The cleaning phase has run with the language model enabled.
CleanedWithLLMEnabled == pc = "clean_done" /\ ~skip_llm

\* C18: when the language model is unavailable (the service unreachable or
\* the model missing), the cleaning phase makes no correction call, returns
\* the French and the Arabic stream of the rule cleaner, records a warning
\* and raises nothing.
C18_UnavailableModelPassesThrough ==
    (CleanedWithLLMEnabled /\ ModelUnavailable) =>
        /\ ollama_calls.correct = 0
        /\ cleaning_result.french_text = rule_result.french_text
        /\ cleaning_result.arabic_text = rule_result.arabic_text
        /\ cleaning_result.warnings # <<>>
        /\ ~cleaning_result.llm_available
        /\ raised = NotRaised

\* The model was missing, the test chat failed, and a text with both
\* languages came back as the rule cleaner left it.
C18_Witness ==
    /\ CleanedWithLLMEnabled
    /\ ollama_models = "missing"
    /\ ollama_calls = [list |-> 1, test |-> 1, correct |-> 0]
    /\ rule_result.french_text # <<>>
    /\ rule_result.arabic_text # <<>>
    /\ cleaning_result.french_text = rule_result.french_text
    /\ cleaning_result.warnings = <<NotAvailableWarning>>

-----------------------------------------------------------------------------
(* The run of one document: main of main.py, with the extractors of         *)
(* extractors/ behind extract_document.                                     *)

\* The format detect_format finds from the extension of the file name.
DocumentFormats == {"pdf", "docx", "txt", "unknown"}

\* The file on disk: no such path; a directory; a file of size 0; a file
\* that cannot be opened or parsed (no permission, damaged); a PDF whose
\* pages are images; a file the libraries read.
FileStates ==
    {"missing", "not_a_file", "empty", "unreadable", "scanned", "readable"}

\* The text of a document, as the libraries return it.
DocumentText == <<"texte">>

\* BaseExtractor.validate_file(file_path): the exception it raises.
ValidateFile(file) ==
    IF file.state = "missing" THEN "FileNotFoundError"
    ELSE IF file.state \in {"not_a_file", "empty"} THEN "ValueError"
    ELSE NotRaised

\* An extract that raised e.
ExtractRaised(e) == [raised |-> e, extraction |-> None]

\* BaseExtractor._build_result: the ExtractionResult of an extract.
BuiltResult(method, full_text, is_scanned, warns) ==
    [raised |-> NotRaised,
     extraction |-> [extraction_method |-> method, full_text |-> full_text,
                     is_scanned |-> is_scanned, warnings |-> warns]]

\* PDFExtractor.extract(file_path): an error of fitz.open is caught and
\* leaves no page (lines 89-90), then pdfplumber is tried and its error
\* caught as well (lines 55-57, 111-112).
PdfExtract(file) ==
    IF ValidateFile(file) # NotRaised THEN ExtractRaised(ValidateFile(file))
    ELSE IF file.state = "unreadable"
    THEN BuiltResult("native_pdf", <<>>, FALSE,
                     <<"pymupdf_error", "pymupdf_poor", "pdfplumber_error">>)
    ELSE IF file.state = "scanned"
    THEN BuiltResult("native_pdf", <<>>, TRUE, <<"appears_scanned">>)
    ELSE BuiltResult("native_pdf", DocumentText, FALSE, <<>>)

\* OCRExtractor.extract(file_path), ocr_ok whether fitz and Tesseract do
\* their work; their errors are caught and leave no page (lines 129-130).
OcrExtract(file, ocr_ok) ==
    IF ValidateFile(file) # NotRaised THEN ExtractRaised(ValidateFile(file))
    ELSE IF file.state = "unreadable" \/ ~ocr_ok
    THEN BuiltResult("ocr", <<>>, TRUE, <<"ocr_error">>)
    ELSE BuiltResult("ocr", DocumentText, TRUE, <<>>)

\* DOCXExtractor.extract(file_path): an error of Document() is caught and
\* leaves no page (lines 45-52).
DocxExtract(file) ==
    IF ValidateFile(file) # NotRaised THEN ExtractRaised(ValidateFile(file))
    ELSE IF file.state = "unreadable"
    THEN BuiltResult("docx_parse", <<>>, FALSE, <<"docx_error">>)
    ELSE BuiltResult("docx_parse", DocumentText, FALSE, <<>>)

\* TXTExtractor.extract(file_path): only decoding errors are caught (line
\* 63); an error of open() leaves the extractor.
TxtExtract(file) ==
    IF ValidateFile(file) # NotRaised THEN ExtractRaised(ValidateFile(file))
    ELSE IF file.state = "unreadable" THEN ExtractRaised("PermissionError")
    ELSE BuiltResult("plain_text", DocumentText, FALSE, <<>>)

\* The OCR fallback of ExtractorFactory.extract (lines 91-103) for the
\* native result r.
OcrFallback(file, r, ocr_ok) ==
    IF r.raised # NotRaised \/ ~r.extraction.is_scanned THEN r
    ELSE IF Len(OcrExtract(file, ocr_ok).extraction.full_text)
                > Len(r.extraction.full_text)
    THEN OcrExtract(file, ocr_ok)
    ELSE r

\* ExtractorFactory.extract(file_path, force_ocr), behind extract_document.
ExtractDocument(file, force_ocr, ocr_ok) ==
    IF file.format = "unknown" THEN ExtractRaised("ValueError")
    ELSE IF file.format = "pdf"
    THEN IF force_ocr THEN OcrExtract(file, ocr_ok)
         ELSE OcrFallback(file, PdfExtract(file), ocr_ok)
    ELSE IF file.format = "docx" THEN DocxExtract(file)
    ELSE TxtExtract(file)

-----------------------------------------------------------------------------
(* SpecRun: main for every file, format and choice of arguments.            *)

\* The files a run may be given; only a PDF has pages that are images.
InputFiles ==
    {f \in [format : DocumentFormats, state : FileStates] :
        f.state = "scanned" => f.format = "pdf"}

\* args.phase, args.ocr and whether args.output names a file.
Arguments == [phase : 1..3, ocr : BOOLEAN, output : BOOLEAN]

InitRun ==
    /\ pc = "run"
    /\ args \in Arguments
    /\ input_file \in InputFiles
    /\ extraction_result = None
    /\ phases_run = <<>>
    /\ output_saved = FALSE
    /\ raised = NotRaised
    /\ header = None /\ raw_extractions = <<>> /\ warnings = <<>>
    /\ parsed_articles = <<>>
    /\ ValidateIdle /\ ChunkerIdle /\ ProcessIdle /\ SplitterIdle
    /\ CallIdle /\ JsonIdle /\ HeaderIdle /\ RuleIdle
    /\ skip_llm = FALSE /\ ollama_models = "none" /\ is_available = "None"
    /\ ollama_calls = NoCalls /\ cleaning_result = NoCleaningResult
    /\ ThreadIdle /\ SeparateIdle

\* Phase 1 of main (lines 63-91): extract_document, and for --phase 1 the
\* output.  An exception leaves main by one of its except clauses.
ExtractionPhaseStep ==
    /\ pc = "run"
    /\ \E ocr_ok \in BOOLEAN :
           /\ raised' = ExtractDocument(input_file, args.ocr, ocr_ok).raised
           /\ extraction_result' =
                  ExtractDocument(input_file, args.ocr, ocr_ok).extraction
    /\ pc' = IF raised' # NotRaised THEN "run_failed"
             ELSE IF args.phase < 2 THEN "run_done" ELSE "extracted"
    /\ output_saved' = (raised' = NotRaised /\ args.phase < 2 /\ args.output)
    /\ UNCHANGED <<args, input_file, phases_run>>
    /\ UNCHANGED <<header, raw_extractions, warnings, parsed_articles>>
    /\ UNCHANGED validate_vars
    /\ UNCHANGED chunker_vars
    /\ UNCHANGED process_vars
    /\ UNCHANGED rule_vars
    /\ UNCHANGED clean_vars
    /\ UNCHANGED articles
    /\ UNCHANGED call_vars
    /\ UNCHANGED json_vars
    /\ UNCHANGED header_path
    /\ UNCHANGED thread_vars
    /\ UNCHANGED separation

\* Phase 2 of main (lines 93-123): CleaningPipeline.clean on the extracted
\* text, and for --phase 2 the output.
CleaningPhaseStep ==
    /\ pc = "extracted"
    /\ phases_run' = Append(phases_run, "cleaning")
    /\ pc' = IF args.phase < 3 THEN "run_done" ELSE "cleaned"
    /\ output_saved' = (args.phase < 3 /\ args.output)
    /\ UNCHANGED <<args, input_file, extraction_result>>
    /\ UNCHANGED assembler_vars
    /\ UNCHANGED validate_vars
    /\ UNCHANGED chunker_vars
    /\ UNCHANGED process_vars
    /\ UNCHANGED rule_vars
    /\ UNCHANGED clean_vars
    /\ UNCHANGED articles
    /\ UNCHANGED call_vars
    /\ UNCHANGED json_vars
    /\ UNCHANGED header_path
    /\ UNCHANGED thread_vars
    /\ UNCHANGED separation

\* Phase 3 of main (lines 126-181): ParsingPipeline.parse, which returns or
\* raises, and the output.
ParsingPhaseStep ==
    /\ pc = "cleaned"
    /\ phases_run' = Append(phases_run, "parsing")
    /\ \E parse_raised \in {NotRaised, "AttributeError"} :
           /\ raised' = parse_raised
           /\ pc' = IF parse_raised = NotRaised THEN "run_done"
                    ELSE "run_failed"
           /\ output_saved' = (parse_raised = NotRaised /\ args.output)
    /\ UNCHANGED <<args, input_file, extraction_result>>
    /\ UNCHANGED <<header, raw_extractions, warnings, parsed_articles>>
    /\ UNCHANGED validate_vars
    /\ UNCHANGED chunker_vars
    /\ UNCHANGED process_vars
    /\ UNCHANGED rule_vars
    /\ UNCHANGED clean_vars
    /\ UNCHANGED articles
    /\ UNCHANGED call_vars
    /\ UNCHANGED json_vars
    /\ UNCHANGED header_path
    /\ UNCHANGED thread_vars
    /\ UNCHANGED separation

NextRun == ExtractionPhaseStep \/ CleaningPhaseStep \/ ParsingPhaseStep

SpecRun == InitRun /\ [][NextRun]_vars

\* The run is over: main has returned or an exception has left it.
RunOver == pc \in {"run_done", "run_failed"}

\* C22: a missing, empty or unreadable input file is fatal to the run:
\* extraction raises (FileNotFoundError for a missing file, ValueError for
\* an empty one), no ExtractionResult is produced, no later phase runs and
\* no output is written.
C22_BadInputIsFatal ==
    (pc # "run" /\ input_file.state \in {"missing", "empty", "unreadable"}) =>
        /\ pc = "run_failed"
        /\ extraction_result = None
        /\ phases_run = <<>>
        /\ ~output_saved
        /\ input_file.state = "missing" => raised = "FileNotFoundError"
        /\ input_file.state = "empty" => raised = "ValueError"

====
